---- MODULE Spec2Model ----
(***************************************************************************)
(* The application store of Vibe-Track (src/store/ProjectContext.tsx), the *)
(* data access layer it calls (api) and the permission matrix (rbac).      *)
(*                                                                         *)
(* The store is a React context: every handler is an async function that   *)
(* closes over the state of the render it was created in, writes state     *)
(* through functional updates (setX(prev => ...)) and suspends at every    *)
(* remote call.  An in-flight handler is a record in `ops` holding the     *)
(* values its closure captured; the remote service answers in a step of    *)
(* its own, and realtime events travel in the queue `rt`.                  *)
(***************************************************************************)
EXTENDS Integers, Sequences, FiniteSets, TLC

\* ------------------------------------------------------------ bounds
MaxOps == 3
MaxCalls == 2
MaxClock == 1
MaxText == 5

\* ------------------------------------------------------------ values
\* Date.now().toString().slice(-4): the last four decimal digits of the clock
SuffixMod == 10000

Null == "null"
Undefined == "undefined"
NoId == ""
NoUser == [id |-> NoId, role |-> NoId]
NoTime == 0 - 1
\* a list-valued field that is null or missing
NoList == << [null |-> TRUE] >>

UserRole ==
  {"Founder", "CTO", "CAO", "Admin", "Team Lead", "Product Manager",
   "Developer", "Designer", "QA Engineer", "Operations"}

MEMBER == "Developer"

Permission ==
  {"CREATE_PROJECT", "DELETE_PROJECT", "MANAGE_ACCESS", "CREATE_SPRINT",
   "MANAGE_SPRINT", "CREATE_EPIC", "CREATE_TASK", "DELETE_TASK", "ASSIGN_TASK",
   "UPDATE_TASK_STATUS", "MANAGE_TEAMS"}

DONE == "DONE"

\* role strings a profile row may carry: role is free text in User
RoleStrings == UserRole \cup {"", "founder", "Guest"}

\* a permission table that grants every role every permission
EveryRoleEverything == [r \in UserRole |-> Permission]

ROLE_PERMISSIONS ==
  [r \in UserRole |->
    CASE r = "Founder" ->
           {"CREATE_PROJECT", "DELETE_PROJECT", "MANAGE_ACCESS", "CREATE_SPRINT",
            "MANAGE_SPRINT", "CREATE_EPIC", "CREATE_TASK", "DELETE_TASK",
            "ASSIGN_TASK", "UPDATE_TASK_STATUS", "MANAGE_TEAMS"}
      [] r = "CTO" ->
           {"CREATE_SPRINT", "MANAGE_SPRINT", "CREATE_EPIC", "CREATE_TASK",
            "DELETE_TASK", "ASSIGN_TASK", "UPDATE_TASK_STATUS", "MANAGE_TEAMS"}
      [] r = "CAO" ->
           {"CREATE_SPRINT", "MANAGE_SPRINT", "CREATE_TASK", "UPDATE_TASK_STATUS"}
      [] r = "Product Manager" ->
           {"CREATE_SPRINT", "MANAGE_SPRINT", "CREATE_EPIC", "CREATE_TASK",
            "DELETE_TASK", "ASSIGN_TASK", "UPDATE_TASK_STATUS", "MANAGE_TEAMS"}
      [] r = "Admin" ->
           {"MANAGE_ACCESS", "CREATE_SPRINT", "MANAGE_SPRINT", "CREATE_EPIC",
            "CREATE_TASK", "DELETE_TASK", "ASSIGN_TASK", "UPDATE_TASK_STATUS",
            "MANAGE_TEAMS"}
      [] r = "Team Lead" -> {"CREATE_TASK", "ASSIGN_TASK", "UPDATE_TASK_STATUS"}
      [] r = "Developer" -> {"UPDATE_TASK_STATUS"}
      [] r = "Designer" -> {"UPDATE_TASK_STATUS"}
      [] r = "QA Engineer" -> {"UPDATE_TASK_STATUS", "CREATE_TASK"}
      [] r = "Operations" -> {"UPDATE_TASK_STATUS"}]

\* Object.values(UserRole).find(r => r === userRole) || UserRole.MEMBER
EffectiveRoleNoFallback(userRole) == userRole

EffectiveRole(userRole) ==
  IF userRole \in UserRole THEN userRole ELSE MEMBER

hasPermission(userRole, permission) ==
  LET effectiveRole == EffectiveRole(userRole)
  IN  IF effectiveRole \in DOMAIN ROLE_PERMISSIONS
        THEN permission \in ROLE_PERMISSIONS[effectiveRole]
        ELSE FALSE

\* ------------------------------------------------------------ remote data
TheUser == [id |-> "u1", role |-> "Founder"]

SeedWorkspaces ==
  << [id |-> "w1", ownerId |-> "u1", members |-> << "u1" >>],
     [id |-> "w2", ownerId |-> "u1", members |-> << "u1" >>],
     [id |-> "w3", ownerId |-> "u1", members |-> << "u1" >>] >>

SeedProjects ==
  << [id |-> "p1", workspaceId |-> "w1", key |-> "A"],
     [id |-> "p2", workspaceId |-> "w1", key |-> "B"],
     [id |-> "p3", workspaceId |-> "w2", key |-> "C"] >>

SeedSprints ==
  << [id |-> "s1", projectId |-> "p1", status |-> "ACTIVE"],
     [id |-> "s2", projectId |-> "p1", status |-> "PLANNED"],
     [id |-> "s3", projectId |-> "p2", status |-> "ACTIVE"] >>

\* the users of the workspace next to the signed-in one
Users == {"u1", "u2", "u3"}

SeedTeams ==
  << [id |-> << "t", 9001 >>, workspaceId |-> "w1", name |-> "core",
      leadId |-> "u1", members |-> << "u1", "u2" >>] >>

\* no issue modal open
NoIssue == [id |-> NoId, subtasks |-> << >>]

SeedEpics ==
  << [id |-> "e1", projectId |-> "p1"], [id |-> "e2", projectId |-> "p2"] >>

SeedIssue(id, pid, status, sprintId) ==
  [id |-> id, projectId |-> pid, title |-> "seed", status |-> status,
   sprintId |-> sprintId, comments |-> << >>, subtasks |-> << >>,
   createdAt |-> 0, updatedAt |-> 0, obj |-> 0]

SeedIssues ==
  << SeedIssue(<< "A", 9001 >>, "p1", "TODO", "s1"),
     SeedIssue(<< "A", 9002 >>, "p1", DONE, "s1"),
     SeedIssue(<< "B", 9001 >>, "p2", "TODO", "s3") >>

\* ------------------------------------------------------------ helpers
\* Array.prototype.some(x => x.id === id)
SomeId(seq, id) == \E k \in DOMAIN seq : seq[k].id = id

\* Array.prototype.find(x => x.id === id): the index of the first match, 0 if none
FindIx(seq, id) ==
  IF SomeId(seq, id)
    THEN CHOOSE k \in DOMAIN seq :
           seq[k].id = id /\ \A j \in 1..(k - 1) : seq[j].id # id
    ELSE 0

\* prev.map(x => x.id === id ? item : x)
MapById(seq, id, item) ==
  [k \in DOMAIN seq |-> IF seq[k].id = id THEN item ELSE seq[k]]

\* prev.filter(x => x.id !== id)
FilterOutId(seq, id) == SelectSeq(seq, LAMBDA x : x.id # id)

\* select('*').eq('projectId', projectId)
ByProject(seq, pid) == SelectSeq(seq, LAMBDA x : x.projectId = pid)

ByWorkspace(seq, wid) == SelectSeq(seq, LAMBDA x : x.workspaceId = wid)

\* ------------------------------------------------------------ state
VARIABLES
  currentUser,        \* useState<User | null>
  workspaces,         \* useState<Workspace[]>
  allProjects,        \* useState<Project[]>
  allIssues,          \* useState<Issue[]>
  allSprints,         \* useState<Sprint[]>
  allEpics,           \* useState<Epic[]>
  allTeams,           \* useState<Team[]>
  toasts,             \* useState<Toast[]>
  activeWorkspaceId,  \* useState<string>
  activeProjectId,    \* useState<string>
  channel,            \* project ids of the subscribed realtime channels
  rt,                 \* realtime events on their way to the channel's handlers
  dbIssues,           \* remote table issues
  dbSprints,          \* remote table sprints
  dbTeams,            \* remote table teams
  selectedIssue,      \* useState<Issue | null> of the board: the issue the
                      \* issue modal was opened with
  isLoading,          \* useState(true)
  auth,               \* the auth client: whether it is configured, whether
                      \* init is still running, whether the session-change
                      \* listener is registered and whether it holds a session
  dbWorkspaces,       \* remote table workspaces
  dbProjects,         \* remote table projects
  ops,                \* the async handlers in flight, with what they closed over
  now,                \* Date.now()
  calls,              \* handlers called so far
  permAsked,          \* the last checkPermission call: its argument and result
  permResult,
  ret,                \* the last call of a service function and its outcome
  done                \* the continuation or event handler that ran in the last
                      \* step, with the collections it found

vars ==
  << currentUser, workspaces, allProjects, allIssues, allSprints, allEpics,
     toasts, activeWorkspaceId, activeProjectId, channel, rt, dbIssues,
     dbSprints, ops, now, calls, permAsked, permResult, done, ret, allTeams,
     dbTeams, selectedIssue, isLoading, auth, dbWorkspaces, dbProjects >>

Slot == 1..MaxOps
Idle == [kind |-> "idle"]

isAuthenticated == currentUser # NoUser

\* allProjects.find(p => p.id === activeProjectId) || null
HasActiveProject == SomeId(allProjects, activeProjectId)

activeProject == allProjects[FindIx(allProjects, activeProjectId)]

HasActiveWorkspace == SomeId(workspaces, activeWorkspaceId)

FreeSlots == {s \in Slot : ops[s].kind = "idle"}

\* the slot a new handler takes
NewSlot == CHOOSE s \in FreeSlots : \A t \in FreeSlots : s <= t

CanCall == FreeSlots # {} /\ calls < MaxCalls

\* the realtime effect re-runs on [isAuthenticated, activeProjectId]: the old
\* channel is removed and one for the new project id is subscribed
ChannelFor(user, pid) == IF user # NoUser /\ pid # NoId THEN pid ELSE NoId

\* a cleanup that leaves the channel subscribed
KeepChannel(chs, pid) == chs

\* the cleanup of the realtime effect: supabase.removeChannel(channel)
RemoveChannel(chs, pid) == chs \ {pid}

\* the realtime effect re-run: the cleanup of the run that subscribed `old`,
\* then the subscription of `new` (NoId where the effect returns early)
Resubscribe(chs, old, new) ==
  LET cleaned == IF old # NoId THEN RemoveChannel(chs, old) ELSE chs
  IN  IF new # NoId THEN cleaned \cup {new} ELSE cleaned

\* the events still to be handed over once only the channels chs are left
Pending(q, chs) == SelectSeq(q, LAMBDA ev : ev.ch \in chs)

\* showToast: setToasts(prev => [...prev, { id, message, type }]); its timer
\* of 4000 ms lies beyond MaxClock
WithToast(ts, message, type) ==
  Append(ts, [id |-> now, message |-> message, type |-> type])

NoDone == [op |-> Idle, issues |-> << >>, sprints |-> << >>]

\* what `done` records of a continuation that runs op in the current state
Settled(op) == [op |-> op, issues |-> allIssues, sprints |-> allSprints]

\* the auth client while init runs: configured, no listener registered yet
Mounting ==
  [configured |-> TRUE, init |-> "running", listening |-> FALSE,
   session |-> FALSE]

\* the auth client once init has handled the stored session of a signed-in user
\* and registered the listener
SignedIn ==
  [configured |-> TRUE, init |-> "done", listening |-> TRUE, session |-> TRUE]

\* the store as ProjectProvider's useState calls build it, next to the remote
\* tables
InitStore ==
  /\ workspaces = << >>
  /\ allProjects = << >>
  /\ allIssues = << >>
  /\ allSprints = << >>
  /\ allEpics = << >>
  /\ toasts = << >>
  /\ activeWorkspaceId = NoId
  /\ activeProjectId = NoId
  /\ channel = {}
  /\ rt = << >>
  /\ dbIssues = SeedIssues
  /\ dbSprints = SeedSprints
  /\ allTeams = << >>
  /\ dbTeams = SeedTeams
  /\ selectedIssue = NoIssue
  /\ isLoading = TRUE
  /\ dbWorkspaces = SeedWorkspaces
  /\ dbProjects = SeedProjects
  /\ ops = [s \in Slot |-> Idle]
  /\ now = 0
  /\ calls = 0
  /\ permAsked = "CREATE_PROJECT"
  /\ permResult = [done |-> FALSE, value |-> FALSE]
  /\ done = NoDone

\* no service function called yet, the remote data service configured
NoCall == [fn |-> "none", configured |-> TRUE]

Init == currentUser = NoUser /\ InitStore /\ auth = Mounting /\ ret = NoCall


\* ------------------------------------------------------------ session
\* handleSession(session) for a signed-in session: the profile, the workspaces
\* and the users are fetched, then the user and the workspaces are stored and
\* the user's first workspace becomes the active one; the change of
\* activeWorkspaceId runs the loadWorkspaceData effect
handleSession ==
  /\ currentUser = NoUser
  /\ FreeSlots # {}
  /\ currentUser' = TheUser
  /\ isLoading' = FALSE
  /\ auth' = SignedIn
  /\ workspaces' = SeedWorkspaces
  /\ activeWorkspaceId' = SeedWorkspaces[1].id
  /\ ops' = [ops EXCEPT ![NewSlot] =
               [kind |-> "loadWs", stage |-> "sent",
                wid |-> SeedWorkspaces[1].id, apid |-> activeProjectId]]
  /\ channel' = Resubscribe(channel, ChannelFor(currentUser, activeProjectId),
                             ChannelFor(TheUser, activeProjectId))
  /\ UNCHANGED << allProjects, allIssues, allSprints, allEpics, toasts,
                  activeProjectId, rt, dbIssues, dbSprints, now, calls,
                  permAsked, permResult, ret,
                  allTeams, dbTeams, selectedIssue, dbWorkspaces,
                  dbProjects >>

\* Promise.all([api.getProjects(workspaceId), api.getTeams(workspaceId)])
\* answered by the remote service
ServeProjects(s) ==
  /\ ops[s].kind = "loadWs" /\ ops[s].stage = "sent"
  /\ \E ok \in BOOLEAN :
       ops' = [ops EXCEPT ![s] =
                 IF ok
                   THEN [ops[s] EXCEPT !.stage = "ok"] @@
                          [projs |-> ByWorkspace(dbProjects, ops[s].wid),
                           tms |-> ByWorkspace(dbTeams, ops[s].wid)]
                   ELSE [ops[s] EXCEPT !.stage = "fail"]]
  /\ UNCHANGED << currentUser, workspaces, allProjects, allIssues, allSprints,
                  allEpics, toasts, activeWorkspaceId, activeProjectId, channel,
                  rt, dbIssues, dbSprints, now, calls, permAsked, permResult,
                  ret,
                  allTeams, dbTeams, selectedIssue, isLoading, auth,
                  dbWorkspaces, dbProjects >>

\* the op that the fetchProjectData effect starts for project pid
FetchOp(pid) == [kind |-> "fetch", stage |-> "sent", pid |-> pid]

\* loadWorkspaceData after the await: setAllProjects(projs) and the auto-selection
\* of the first project, which runs the fetchProjectData and realtime effects
loadWorkspaceData(s) ==
  /\ ops[s].kind = "loadWs" /\ ops[s].stage \in {"ok", "fail"}
  /\ IF ops[s].stage = "fail"
       THEN /\ ops' = [ops EXCEPT ![s] = Idle]
            /\ UNCHANGED << allProjects, allTeams, activeProjectId, channel, rt >>
       ELSE LET projs == ops[s].projs
                currentProjectValid == SomeId(projs, ops[s].apid)
                select == (ops[s].apid = NoId \/ ~currentProjectValid)
                            /\ Len(projs) > 0
                           /\ projs[1].id # activeProjectId
            IN  /\ allProjects' = projs
                /\ allTeams' = ops[s].tms
                /\ activeProjectId' = IF select THEN projs[1].id ELSE activeProjectId
                /\ ops' = [ops EXCEPT ![s] =
                             IF select THEN FetchOp(projs[1].id) ELSE Idle]
                /\ channel' = Resubscribe(channel,
                                           ChannelFor(currentUser, activeProjectId),
                                           ChannelFor(currentUser, activeProjectId'))
                /\ rt' = Pending(rt, channel')
  /\ UNCHANGED << currentUser, workspaces, allIssues, allSprints, allEpics,
                  toasts, activeWorkspaceId, dbIssues, dbSprints, now, calls,
                  permAsked, permResult, ret, dbTeams, selectedIssue, isLoading, auth,
                  dbWorkspaces, dbProjects >>

\* setActiveWorkspace(id), from the workspace menu: the loadWorkspaceData effect
\* re-runs for the new id, with the activeProjectId of this render in its
\* closure
setActiveWorkspace(id) ==
  /\ isAuthenticated /\ CanCall
  /\ SomeId(workspaces, id)
  /\ id # activeWorkspaceId
  /\ activeWorkspaceId' = id
  /\ ops' = [ops EXCEPT ![NewSlot] =
               [kind |-> "loadWs", stage |-> "sent", wid |-> id,
                apid |-> activeProjectId]]
  /\ calls' = calls + 1
  /\ UNCHANGED << currentUser, workspaces, allProjects, allIssues, allSprints,
                  allEpics, toasts, activeProjectId, channel, rt, dbIssues,
                  dbSprints, now, permAsked, permResult, ret,
                  allTeams, dbTeams, selectedIssue, isLoading, auth,
                  dbWorkspaces, dbProjects >>

\* setActiveProject(id), from the project menu: the fetchProjectData effect and
\* the realtime effect re-run for the new id
setActiveProject(id) ==
  /\ isAuthenticated /\ CanCall
  /\ SomeId(allProjects, id)
  /\ id # activeProjectId
  /\ activeProjectId' = id
  /\ ops' = [ops EXCEPT ![NewSlot] = FetchOp(id)]
  /\ channel' = Resubscribe(channel, ChannelFor(currentUser, activeProjectId),
                             ChannelFor(currentUser, id))
  /\ rt' = Pending(rt, channel')
  /\ calls' = calls + 1
  /\ UNCHANGED << currentUser, workspaces, allProjects, allIssues, allSprints,
                  allEpics, toasts, activeWorkspaceId, dbIssues, dbSprints, now,
                  permAsked, permResult, ret,
                  allTeams, dbTeams, selectedIssue, isLoading, auth,
                  dbWorkspaces, dbProjects >>

\* logout, after supabase.auth.signOut(): the user, the workspaces and the
\* projects are dropped and both selections are cleared, which runs the cleanup
\* of the realtime effect; the issue, sprint and epic collections stay
logout ==
  /\ isAuthenticated /\ CanCall
  /\ currentUser' = NoUser
  /\ workspaces' = << >>
  /\ allProjects' = << >>
  /\ activeWorkspaceId' = NoId
  /\ activeProjectId' = NoId
  /\ auth' = [auth EXCEPT !.session = FALSE]
  /\ isLoading' = IF auth.listening THEN FALSE ELSE isLoading
  /\ toasts' = WithToast(toasts, "Logged out successfully", "info")
  /\ channel' = Resubscribe(channel, ChannelFor(currentUser, activeProjectId),
                             ChannelFor(NoUser, NoId))
  /\ rt' = Pending(rt, channel')
  /\ calls' = calls + 1
  /\ done' = Settled([kind |-> "logout", channel |-> channel])
  /\ UNCHANGED << allIssues, allSprints, allEpics, dbIssues, dbSprints, ops,
                  now, permAsked, permResult, ret,
                  allTeams, dbTeams, selectedIssue, dbWorkspaces,
                  dbProjects >>

\* ------------------------------------------------------------ sign-in
\* what the session handlers and login leave alone
boardVars ==
  << allIssues, allSprints, allEpics, allTeams, dbIssues, dbSprints, dbTeams,
     selectedIssue, dbWorkspaces, dbProjects, now, permAsked, permResult,
     ret >>

\* the session state of the store
SessionState ==
  [currentUser |-> currentUser, workspaces |-> workspaces,
   allProjects |-> allProjects, activeWorkspaceId |-> activeWorkspaceId,
   activeProjectId |-> activeProjectId]

\* the workspaceIds column of the profile row
ProfileWorkspaceIds == { << >>, << "w1" >>, << "w9" >> }

\* the role column of the profile row
ProfileRoles == {"Founder", "Developer"}

\* the op of a handleSession call that awaits the profile, the workspaces and
\* the users; fromInit tells the call of init, which registers the listener
\* afterwards
SessionOp(event, fromInit) ==
  [kind |-> "session", stage |-> "sent", event |-> event, fromInit |-> fromInit]

\* init with the remote service not configured: setIsLoading(false); return
initUnconfigured ==
  /\ auth.init = "running" /\ ~auth.configured
  /\ isLoading' = FALSE
  /\ auth' = [auth EXCEPT !.init = "done"]
  /\ done' = NoDone
  /\ UNCHANGED << currentUser, workspaces, allProjects, toasts,
                  activeWorkspaceId, activeProjectId, channel, rt, ops, calls >>
  /\ UNCHANGED boardVars

\* init with the remote service configured: getSession() throws, and the catch
\* block only clears isLoading; or it answers no session, handleSession(null)
\* clears the store and the listener is registered; or it answers a session and
\* handleSession starts its fetches
getSession(outcome) ==
  /\ auth.init = "running" /\ auth.configured
  /\ CASE outcome = "throws" ->
            /\ isLoading' = FALSE
            /\ auth' = [auth EXCEPT !.init = "done"]
            /\ UNCHANGED << currentUser, workspaces, allProjects,
                            activeWorkspaceId, activeProjectId, ops >>
       [] outcome = "none" ->
            /\ currentUser' = NoUser
            /\ workspaces' = << >>
            /\ allProjects' = << >>
            /\ activeWorkspaceId' = NoId
            /\ activeProjectId' = NoId
            /\ isLoading' = FALSE
            /\ auth' = [auth EXCEPT !.init = "done", !.listening = TRUE]
            /\ UNCHANGED ops
       [] outcome = "session" ->
            /\ auth' = [auth EXCEPT !.init = "handling", !.session = TRUE]
            /\ ops' = [ops EXCEPT ![NewSlot] = SessionOp("INITIAL", TRUE)]
            /\ UNCHANGED << currentUser, workspaces, allProjects,
                            activeWorkspaceId, activeProjectId, isLoading >>
  /\ done' = NoDone
  /\ UNCHANGED << toasts, channel, rt, calls >>
  /\ UNCHANGED boardVars

\* login(email, password), from the sign-in form, which AppContent shows when
\* isLoading is false and nobody is signed in
login(password) ==
  /\ ~isLoading /\ ~isAuthenticated /\ auth.init = "done" /\ CanCall
  /\ IF auth.configured /\ password
       THEN /\ isLoading' = TRUE
            /\ ops' = [ops EXCEPT ![NewSlot] = [kind |-> "login", stage |-> "sent"]]
            /\ UNCHANGED toasts
       ELSE /\ toasts' = WithToast(toasts, "Supabase not configured.", "error")
            /\ UNCHANGED << isLoading, ops >>
  /\ calls' = calls + 1
  /\ done' = Settled([kind |-> "login",
                      stage |-> IF auth.configured /\ password
                                  THEN "call" ELSE "refused",
                      was |-> SessionState, toasts |-> toasts])
  /\ UNCHANGED << currentUser, workspaces, allProjects, activeWorkspaceId,
                  activeProjectId, channel, rt, auth >>
  /\ UNCHANGED boardVars

\* supabase.auth.signInWithPassword answered: with an error, or with a session,
\* and then the auth client calls the registered listener with SIGNED_IN
\* before the promise resolves
ServeSignIn(s) ==
  /\ ops[s].kind = "login" /\ ops[s].stage = "sent"
  /\ \E ok \in BOOLEAN :
       IF ok
         THEN /\ auth' = [auth EXCEPT !.session = TRUE]
              /\ IF auth.listening
                   THEN /\ FreeSlots # {}
                        /\ ops' = [ops EXCEPT ![s] = [@ EXCEPT !.stage = "ok"],
                                              ![NewSlot] = SessionOp("SIGNED_IN", FALSE)]
                   ELSE ops' = [ops EXCEPT ![s] = [@ EXCEPT !.stage = "ok"]]
         ELSE /\ ops' = [ops EXCEPT ![s] = [@ EXCEPT !.stage = "fail"]]
              /\ UNCHANGED auth
  /\ done' = NoDone
  /\ UNCHANGED << currentUser, workspaces, allProjects, toasts,
                  activeWorkspaceId, activeProjectId, channel, rt, calls,
                  isLoading >>
  /\ UNCHANGED boardVars

\* isLoading left as the error branch of login found it
KeepLoading(loading) == loading

\* isLoading after the error branch of login: setIsLoading(false)
AfterLoginError(loading) == FALSE

\* login after the await
loginDone(s) ==
  /\ ops[s].kind = "login" /\ ops[s].stage \in {"ok", "fail"}
  /\ IF ops[s].stage = "fail"
       THEN /\ toasts' = WithToast(toasts, "Invalid login credentials", "error")
            /\ isLoading' = AfterLoginError(isLoading)
       ELSE /\ toasts' = WithToast(toasts, "Welcome back!", "success")
            /\ UNCHANGED isLoading
  /\ ops' = [ops EXCEPT ![s] = Idle]
  /\ done' = Settled([kind |-> "login", stage |-> ops[s].stage,
                      was |-> SessionState, toasts |-> toasts])
  /\ UNCHANGED << currentUser, workspaces, allProjects, activeWorkspaceId,
                  activeProjectId, channel, rt, calls, auth >>
  /\ UNCHANGED boardVars

\* the listener registered by init, called with TOKEN_REFRESHED for the session
\* the auth client holds: handleSession(session) starts its fetches
onAuthStateChange(event) ==
  /\ auth.listening /\ auth.session /\ CanCall
  /\ event = "TOKEN_REFRESHED"
  /\ ops' = [ops EXCEPT ![NewSlot] = SessionOp(event, FALSE)]
  /\ calls' = calls + 1
  /\ done' = NoDone
  /\ UNCHANGED << currentUser, workspaces, allProjects, toasts,
                  activeWorkspaceId, activeProjectId, channel, rt, isLoading,
                  auth >>
  /\ UNCHANGED boardVars

\* userObj.workspaceIds?.find(id => wsData.some(w => w.id === id)), else
\* wsData[0].id
PreferredId(workspaceIds, wsData) ==
  LET found == SelectSeq(workspaceIds, LAMBDA id : SomeId(wsData, id))
  IN  IF found # << >> THEN found[1] ELSE wsData[1].id

\* what handleSession does with the rows it fetched: with rows it stores them
\* and selects the preferred one; without rows it clears the workspaces unless
\* the profile lists some (shouldHaveWorkspaces)
SessionAnswer(role, workspaceIds, wsData) ==
  [role |-> role, wsData |-> wsData,
   preferredId |-> IF Len(wsData) > 0
                     THEN PreferredId(workspaceIds, wsData) ELSE NoId,
   keep |-> Len(wsData) = 0 /\ Len(workspaceIds) > 0]

\* the profile, api.getWorkspaces() and api.getUsers() answered, with the
\* workspace rows the user may read, or one of them throws
ServeSession(s) ==
  /\ ops[s].kind = "session" /\ ops[s].stage = "sent"
  /\ \/ \E wids \in ProfileWorkspaceIds, role \in ProfileRoles,
             wsData \in {dbWorkspaces, << >>} :
          ops' = [ops EXCEPT ![s] =
                    [ops[s] EXCEPT !.stage = "ok"] @@
                      SessionAnswer(role, wids, wsData)]
     \/ ops' = [ops EXCEPT ![s] = [@ EXCEPT !.stage = "fail"]]
  /\ done' = NoDone
  /\ UNCHANGED << currentUser, workspaces, allProjects, toasts,
                  activeWorkspaceId, activeProjectId, channel, rt, calls,
                  isLoading, auth >>
  /\ UNCHANGED boardVars

\* handleSession after its awaits: the user and the workspaces are stored, the
\* preferred workspace becomes the active one, which runs the
\* loadWorkspaceData effect when the id changes, and isLoading is cleared in
\* the finally block; the call of init registers the listener afterwards
handleSessionDone(s) ==
  /\ ops[s].kind = "session" /\ ops[s].stage \in {"ok", "fail"}
  /\ IF ops[s].stage = "ok"
       THEN LET wsData == ops[s].wsData
            IN  /\ currentUser' = [TheUser EXCEPT !.role = ops[s].role]
                /\ workspaces' =
                     IF Len(wsData) > 0 THEN wsData
                     ELSE IF ops[s].keep THEN workspaces ELSE << >>
                /\ activeWorkspaceId' =
                     IF Len(wsData) > 0 THEN ops[s].preferredId
                                        ELSE activeWorkspaceId
                /\ ops' = [ops EXCEPT ![s] =
                             IF activeWorkspaceId' # activeWorkspaceId
                               THEN [kind |-> "loadWs", stage |-> "sent",
                                     wid |-> activeWorkspaceId',
                                     apid |-> activeProjectId]
                               ELSE Idle]
                /\ channel' = Resubscribe(channel,
                                           ChannelFor(currentUser, activeProjectId),
                                           ChannelFor(currentUser', activeProjectId))
                /\ rt' = Pending(rt, channel')
       ELSE /\ ops' = [ops EXCEPT ![s] = Idle]
            /\ UNCHANGED << currentUser, workspaces, activeWorkspaceId, channel,
                            rt >>
  /\ isLoading' = FALSE
  /\ auth' = IF ops[s].fromInit
               THEN [auth EXCEPT !.init = "done", !.listening = TRUE]
               ELSE auth
  /\ done' = Settled([kind |-> "session", stage |-> ops[s].stage,
                      event |-> ops[s].event, was |-> SessionState])
  /\ UNCHANGED << allProjects, toasts, activeProjectId, calls >>
  /\ UNCHANGED boardVars

\* ------------------------------------------------------------ workspaces and projects
\* what the workspace and project handlers leave alone
issueVars ==
  << allIssues, allSprints, allEpics, allTeams, dbIssues, dbSprints, dbTeams,
     selectedIssue, now, permAsked, permResult, ret >>

\* `ws-${Date.now()}` and `p-${Date.now()}`
WorkspaceIdAt == << "ws-0", "ws-1", "ws-2", "ws-3" >>
ProjectIdAt == << "p-0", "p-1", "p-2", "p-3" >>

\* { id: `ws-${Date.now()}`, name, ownerId: userId, members: [userId] }
NewWorkspace(userId) ==
  [id |-> WorkspaceIdAt[now + 1], ownerId |-> userId, members |-> << userId >>]

\* { id: `p-${Date.now()}`, workspaceId, name, key, description, type, leadId }
NewProject(workspaceId, key) ==
  [id |-> ProjectIdAt[now + 1], workspaceId |-> workspaceId, key |-> key]

\* the loadWorkspaceData effect started for workspace wid
LoadOp(wid) ==
  [kind |-> "loadWs", stage |-> "sent", wid |-> wid, apid |-> activeProjectId]

\* signup(name, email, workspaceName, role, password), from the sign-up form
signup(role, password) ==
  /\ ~isLoading /\ ~isAuthenticated /\ auth.init = "done" /\ CanCall
  /\ IF auth.configured /\ password
       THEN /\ isLoading' = TRUE
            /\ ops' = [ops EXCEPT ![NewSlot] =
                         [kind |-> "signup", stage |-> "sent", role |-> role,
                          workspace |-> NewWorkspace("u1")]]
            /\ UNCHANGED toasts
       ELSE /\ toasts' = WithToast(toasts, "Supabase not configured.", "error")
            /\ UNCHANGED << isLoading, ops >>
  /\ calls' = calls + 1
  /\ done' = NoDone
  /\ UNCHANGED << currentUser, workspaces, allProjects, activeWorkspaceId,
                  activeProjectId, channel, rt, auth, dbWorkspaces, dbProjects >>
  /\ UNCHANGED issueVars

\* auth.signUp and the inserts of the profile, the workspace and the project
\* answered, each of which may fail; signUp answers with the new user, whose
\* session starts once the address is confirmed
ServeSignUp(s) ==
  /\ ops[s].kind = "signup" /\ ops[s].stage = "sent"
  /\ \E outcome \in {"ok", "authError", "wsError", "projError"} :
       LET project == [id |-> ProjectIdAt[now + 1],
                       workspaceId |-> ops[s].workspace.id, key |-> "PROJ"]
       IN  /\ ops' = [ops EXCEPT ![s] =
                        [ops[s] EXCEPT !.stage = IF outcome = "ok"
                                                   THEN "ok" ELSE "fail"] @@
                          [project |-> project]]
           /\ dbWorkspaces' = IF outcome \in {"ok", "projError"}
                                THEN Append(dbWorkspaces, ops[s].workspace)
                                ELSE dbWorkspaces
           /\ dbProjects' = IF outcome = "ok"
                              THEN Append(dbProjects, project) ELSE dbProjects
  /\ done' = NoDone
  /\ UNCHANGED << currentUser, workspaces, allProjects, toasts,
                  activeWorkspaceId, activeProjectId, channel, rt, calls,
                  isLoading, auth >>
  /\ UNCHANGED issueVars

\* signup after its awaits: the user, the new workspace and the new project are
\* stored and selected, which runs the loading effects, or the error is shown;
\* the finally block clears isLoading
signupDone(s) ==
  /\ ops[s].kind = "signup" /\ ops[s].stage # "sent"
  /\ IF ops[s].stage = "ok"
       THEN /\ FreeSlots # {}
            /\ currentUser' = [id |-> "u1", role |-> ops[s].role]
            /\ workspaces' = << ops[s].workspace >>
            /\ allProjects' = << ops[s].project >>
            /\ activeWorkspaceId' = ops[s].workspace.id
            /\ activeProjectId' = ops[s].project.id
            /\ toasts' = WithToast(toasts, "Account created successfully!", "success")
            /\ ops' = [ops EXCEPT ![s] = LoadOp(ops[s].workspace.id),
                                  ![NewSlot] = FetchOp(ops[s].project.id)]
            /\ channel' = Resubscribe(channel,
                                       ChannelFor(currentUser, activeProjectId),
                                       ChannelFor(currentUser', activeProjectId'))
            /\ rt' = Pending(rt, channel')
       ELSE /\ toasts' = WithToast(toasts, "Signup failed", "error")
            /\ ops' = [ops EXCEPT ![s] = Idle]
            /\ UNCHANGED << currentUser, workspaces, allProjects,
                            activeWorkspaceId, activeProjectId, channel, rt >>
  /\ isLoading' = FALSE
  /\ done' = Settled([kind |-> "signup", stage |-> ops[s].stage])
  /\ UNCHANGED << calls, auth, dbWorkspaces, dbProjects >>
  /\ UNCHANGED issueVars

\* createWorkspace(name), from the workspace menu
createWorkspace ==
  /\ isAuthenticated /\ CanCall
  /\ ops' = [ops EXCEPT ![NewSlot] =
               [kind |-> "createWorkspace", stage |-> "sent",
                workspace |-> NewWorkspace(currentUser.id)]]
  /\ calls' = calls + 1
  /\ done' = NoDone
  /\ UNCHANGED << currentUser, workspaces, allProjects, toasts,
                  activeWorkspaceId, activeProjectId, channel, rt, isLoading,
                  auth, dbWorkspaces, dbProjects >>
  /\ UNCHANGED issueVars

\* api.createWorkspace answered by the remote service
ServeCreateWorkspace(s) ==
  /\ ops[s].kind = "createWorkspace" /\ ops[s].stage = "sent"
  /\ \E ok \in BOOLEAN :
       /\ ops' = [ops EXCEPT ![s] = [@ EXCEPT !.stage = IF ok THEN "ok" ELSE "fail"]]
       /\ dbWorkspaces' = IF ok THEN Append(dbWorkspaces, ops[s].workspace)
                                ELSE dbWorkspaces
  /\ done' = NoDone
  /\ UNCHANGED << currentUser, workspaces, allProjects, toasts,
                  activeWorkspaceId, activeProjectId, channel, rt, calls,
                  isLoading, auth, dbProjects >>
  /\ UNCHANGED issueVars

\* createWorkspace after the await: the workspace is appended and selected,
\* which runs the loadWorkspaceData effect, or the error is shown
createWorkspaceDone(s) ==
  /\ ops[s].kind = "createWorkspace" /\ ops[s].stage \in {"ok", "fail"}
  /\ IF ops[s].stage = "ok"
       THEN /\ workspaces' = Append(workspaces, ops[s].workspace)
            /\ activeWorkspaceId' = ops[s].workspace.id
            /\ toasts' = WithToast(toasts, "Workspace created successfully", "success")
            /\ ops' = [ops EXCEPT ![s] =
                         IF activeWorkspaceId' # activeWorkspaceId
                           THEN LoadOp(ops[s].workspace.id) ELSE Idle]
       ELSE /\ toasts' = WithToast(toasts, "Failed to create workspace", "error")
            /\ ops' = [ops EXCEPT ![s] = Idle]
            /\ UNCHANGED << workspaces, activeWorkspaceId >>
  /\ done' = Settled([kind |-> "createWorkspace", stage |-> ops[s].stage])
  /\ UNCHANGED << currentUser, allProjects, activeProjectId, channel, rt, calls,
                  isLoading, auth, dbWorkspaces, dbProjects >>
  /\ UNCHANGED issueVars

\* the answer of members.includes(existingUser.id) that lets nobody count as a
\* member
NeverMember(workspace, userId) == FALSE

\* activeWorkspace.members.includes(existingUser.id)
IsMember(workspace, userId) ==
  \E k \in DOMAIN workspace.members : workspace.members[k] = userId

\* { ...activeWorkspace, members: [...activeWorkspace.members, existingUser.id] }
InvitedWorkspace(workspace, userId) ==
  [workspace EXCEPT !.members = Append(@, userId)]

\* inviteUser(email), with the user that users.find(u => u.email === email)
\* finds among the users handleSession stored, NoId when it finds none
inviteUser(userId) ==
  /\ HasActiveWorkspace /\ CanCall
  /\ LET activeWorkspace == workspaces[FindIx(workspaces, activeWorkspaceId)]
     IN  IF userId = NoId
           THEN /\ toasts' = WithToast(toasts, "not found in system", "info")
                /\ UNCHANGED ops
           ELSE IF IsMember(activeWorkspace, userId)
             THEN /\ toasts' = WithToast(toasts, "is already in the workspace", "info")
                  /\ UNCHANGED ops
             ELSE /\ ops' = [ops EXCEPT ![NewSlot] =
                               [kind |-> "invite", stage |-> "sent",
                                updatedWorkspace |->
                                  InvitedWorkspace(activeWorkspace, userId)]]
                  /\ UNCHANGED toasts
  /\ calls' = calls + 1
  /\ done' = NoDone
  /\ UNCHANGED << currentUser, workspaces, allProjects, activeWorkspaceId,
                  activeProjectId, channel, rt, isLoading, auth, dbWorkspaces,
                  dbProjects >>
  /\ UNCHANGED issueVars

\* supabase.from('workspaces').update({ members }).eq('id', workspace.id)
DbUpdateWorkspace(rows, workspace) ==
  [k \in DOMAIN rows |->
     IF rows[k].id = workspace.id
       THEN [rows[k] EXCEPT !.members = workspace.members] ELSE rows[k]]

\* api.updateWorkspace answered by the remote service
ServeUpdateWorkspace(s) ==
  /\ ops[s].kind = "invite" /\ ops[s].stage = "sent"
  /\ \E ok \in BOOLEAN :
       /\ ops' = [ops EXCEPT ![s] = [@ EXCEPT !.stage = IF ok THEN "ok" ELSE "fail"]]
       /\ dbWorkspaces' = IF ok
                            THEN DbUpdateWorkspace(dbWorkspaces, ops[s].updatedWorkspace)
                            ELSE dbWorkspaces
  /\ done' = NoDone
  /\ UNCHANGED << currentUser, workspaces, allProjects, toasts,
                  activeWorkspaceId, activeProjectId, channel, rt, calls,
                  isLoading, auth, dbProjects >>
  /\ UNCHANGED issueVars

\* inviteUser after the await: the workspace is replaced by the updated one;
\* a rejection of api.updateWorkspace is not caught and ends the handler
inviteUserDone(s) ==
  /\ ops[s].kind = "invite" /\ ops[s].stage \in {"ok", "fail"}
  /\ IF ops[s].stage = "ok"
       THEN /\ workspaces' = MapById(workspaces, ops[s].updatedWorkspace.id,
                                     ops[s].updatedWorkspace)
            /\ toasts' = WithToast(toasts, "added to workspace.", "success")
       ELSE UNCHANGED << workspaces, toasts >>
  /\ ops' = [ops EXCEPT ![s] = Idle]
  /\ done' = Settled([kind |-> "invite", stage |-> ops[s].stage,
                      id |-> ops[s].updatedWorkspace.id])
  /\ UNCHANGED << currentUser, allProjects, activeWorkspaceId, activeProjectId,
                  channel, rt, calls, isLoading, auth, dbWorkspaces,
                  dbProjects >>
  /\ UNCHANGED issueVars

\* what a continuation of createProject records: where it got to, the session
\* state its call closed over, and the session state and the notices it found
ProjectOp(s, stage) ==
  [kind |-> "createProject", stage |-> stage, closed |-> ops[s].closed,
   was |-> SessionState, toasts |-> toasts]

\* allProjects.length > 0 && !checkPermission(Permission.CREATE_PROJECT), with
\* the projects and the user of the render createProject was called in
Refused(closed) ==
  /\ Len(closed.allProjects) > 0
  /\ ~hasPermission(closed.currentUser.role, "CREATE_PROJECT")

\* createProject(name, key, description, type): the profile check is sent
createProject(key) ==
  /\ isAuthenticated /\ CanCall
  /\ ops' = [ops EXCEPT ![NewSlot] =
               [kind |-> "createProject", stage |-> "profileSent", key |-> key,
                closed |-> SessionState]]
  /\ calls' = calls + 1
  /\ done' = NoDone
  /\ UNCHANGED << currentUser, workspaces, allProjects, toasts,
                  activeWorkspaceId, activeProjectId, channel, rt, isLoading,
                  auth, dbWorkspaces, dbProjects >>
  /\ UNCHANGED issueVars

\* the profile check answered: the row exists, or it was missing and the
\* insert succeeded or failed, or the check throws
ServeProfile(s) ==
  /\ ops[s].kind = "createProject" /\ ops[s].stage = "profileSent"
  /\ \E outcome \in {"exists", "healed", "recoveryError", "throws"} :
       ops' = [ops EXCEPT ![s] =
                 [ops[s] EXCEPT !.stage = "profile"] @@
                   [profile |-> IF outcome = "recoveryError"
                                  THEN outcome ELSE "verified"]]
  /\ done' = NoDone
  /\ UNCHANGED << currentUser, workspaces, allProjects, toasts,
                  activeWorkspaceId, activeProjectId, channel, rt, calls,
                  isLoading, auth, dbWorkspaces, dbProjects >>
  /\ UNCHANGED issueVars

\* createProject after the profile check: it gives up on a failed recovery,
\* sends the insert of a default workspace when the render it was called in
\* had no active workspace, and otherwise goes on to the permission check and
\* api.createProject
createProjectVerified(s) ==
  /\ ops[s].kind = "createProject" /\ ops[s].stage = "profile"
  /\ LET closed == ops[s].closed
     IN  CASE ops[s].profile = "recoveryError" ->
                /\ toasts' = WithToast(toasts, "Account Error", "error")
                /\ ops' = [ops EXCEPT ![s] = Idle]
                /\ done' = Settled(ProjectOp(s, "account"))
           [] ops[s].profile # "recoveryError" /\ closed.activeWorkspaceId = NoId ->
                /\ ops' = [ops EXCEPT ![s] =
                             [ops[s] EXCEPT !.stage = "wsSent"] @@
                               [workspace |-> NewWorkspace(closed.currentUser.id)]]
                /\ done' = Settled(ProjectOp(s, "wsSent"))
                /\ UNCHANGED toasts
           [] ops[s].profile # "recoveryError" /\ closed.activeWorkspaceId # NoId ->
                IF Refused(closed)
                  THEN /\ toasts' = WithToast(toasts,
                                      "You do not have permission to create projects.",
                                      "error")
                       /\ ops' = [ops EXCEPT ![s] = Idle]
                       /\ done' = Settled(ProjectOp(s, "refused"))
                  ELSE /\ ops' = [ops EXCEPT ![s] =
                                    [ops[s] EXCEPT !.stage = "projSent"] @@
                                      [project |-> NewProject(closed.activeWorkspaceId,
                                                              ops[s].key)]]
                       /\ done' = Settled(ProjectOp(s, "projSent"))
                       /\ UNCHANGED toasts
  /\ UNCHANGED << currentUser, workspaces, allProjects, activeWorkspaceId,
                  activeProjectId, channel, rt, calls, isLoading, auth,
                  dbWorkspaces, dbProjects >>
  /\ UNCHANGED issueVars

\* supabase.from('workspaces').insert(newWorkspace) answered
ServeInsertWorkspace(s) ==
  /\ ops[s].kind = "createProject" /\ ops[s].stage = "wsSent"
  /\ \E ok \in BOOLEAN :
       /\ ops' = [ops EXCEPT ![s] = [@ EXCEPT !.stage = IF ok THEN "ws" ELSE "wsError"]]
       /\ dbWorkspaces' = IF ok THEN Append(dbWorkspaces, ops[s].workspace)
                                ELSE dbWorkspaces
  /\ done' = NoDone
  /\ UNCHANGED << currentUser, workspaces, allProjects, toasts,
                  activeWorkspaceId, activeProjectId, channel, rt, calls,
                  isLoading, auth, dbProjects >>
  /\ UNCHANGED issueVars

\* createProject after the insert of the default workspace: the workspace is
\* appended and selected, which runs the loadWorkspaceData effect, and the
\* permission check follows
createProjectWorkspace(s) ==
  /\ ops[s].kind = "createProject" /\ ops[s].stage \in {"ws", "wsError"}
  /\ IF ops[s].stage = "wsError"
       THEN /\ toasts' = WithToast(toasts, "Failed to create default workspace",
                                   "error")
            /\ ops' = [ops EXCEPT ![s] = Idle]
            /\ done' = Settled(ProjectOp(s, "wsError"))
            /\ UNCHANGED << workspaces, activeWorkspaceId >>
       ELSE /\ FreeSlots # {}
            /\ workspaces' = Append(workspaces, ops[s].workspace)
            /\ activeWorkspaceId' = ops[s].workspace.id
            /\ IF Refused(ops[s].closed)
                 THEN /\ toasts' = WithToast(toasts,
                                     "You do not have permission to create projects.",
                                     "error")
                      /\ ops' = [ops EXCEPT ![s] = Idle,
                                            ![NewSlot] = LoadOp(ops[s].workspace.id)]
                      /\ done' = Settled(ProjectOp(s, "refused"))
                 ELSE /\ ops' = [ops EXCEPT
                                   ![s] = [ops[s] EXCEPT !.stage = "projSent"] @@
                                            [project |-> NewProject(ops[s].workspace.id,
                                                                    ops[s].key)],
                                   ![NewSlot] = LoadOp(ops[s].workspace.id)]
                      /\ done' = Settled(ProjectOp(s, "projSent"))
                      /\ UNCHANGED toasts
  /\ UNCHANGED << currentUser, allProjects, activeProjectId, channel, rt, calls,
                  isLoading, auth, dbWorkspaces, dbProjects >>
  /\ UNCHANGED issueVars

\* api.createProject answered by the remote service
ServeCreateProject(s) ==
  /\ ops[s].kind = "createProject" /\ ops[s].stage = "projSent"
  /\ \E ok \in BOOLEAN :
       /\ ops' = [ops EXCEPT ![s] = [@ EXCEPT !.stage = IF ok THEN "ok" ELSE "fail"]]
       /\ dbProjects' = IF ok THEN Append(dbProjects, ops[s].project)
                              ELSE dbProjects
  /\ done' = NoDone
  /\ UNCHANGED << currentUser, workspaces, allProjects, toasts,
                  activeWorkspaceId, activeProjectId, channel, rt, calls,
                  isLoading, auth, dbWorkspaces >>
  /\ UNCHANGED issueVars

\* createProject after api.createProject: the project is appended and
\* selected, which runs the fetchProjectData and realtime effects, or the
\* error is shown
createProjectDone(s) ==
  /\ ops[s].kind = "createProject" /\ ops[s].stage \in {"ok", "fail"}
  /\ IF ops[s].stage = "ok"
       THEN /\ allProjects' = Append(allProjects, ops[s].project)
            /\ activeProjectId' = ops[s].project.id
            /\ toasts' = WithToast(toasts, "Project created successfully", "success")
            /\ ops' = [ops EXCEPT ![s] =
                         IF activeProjectId' # activeProjectId
                           THEN FetchOp(ops[s].project.id) ELSE Idle]
            /\ channel' = Resubscribe(channel,
                                       ChannelFor(currentUser, activeProjectId),
                                       ChannelFor(currentUser, activeProjectId'))
            /\ rt' = Pending(rt, channel')
       ELSE /\ toasts' = WithToast(toasts, "Failed to create project", "error")
            /\ ops' = [ops EXCEPT ![s] = Idle]
            /\ UNCHANGED << allProjects, activeProjectId, channel, rt >>
  /\ done' = Settled(ProjectOp(s, ops[s].stage))
  /\ UNCHANGED << currentUser, workspaces, activeWorkspaceId, calls, isLoading,
                  auth, dbWorkspaces, dbProjects >>
  /\ UNCHANGED issueVars

\* api.getIssues / getSprints / getEpics answered by the remote service
ServeFetch(s) ==
  /\ ops[s].kind = "fetch" /\ ops[s].stage = "sent"
  /\ \E ok \in BOOLEAN :
       ops' = [ops EXCEPT ![s] =
                 IF ok
                   THEN [kind |-> "fetch", stage |-> "ok", pid |-> ops[s].pid,
                         iss |-> ByProject(dbIssues, ops[s].pid),
                         sps |-> ByProject(dbSprints, ops[s].pid),
                         eps |-> ByProject(SeedEpics, ops[s].pid)]
                   ELSE [ops[s] EXCEPT !.stage = "fail"]]
  /\ UNCHANGED << currentUser, workspaces, allProjects, allIssues, allSprints,
                  allEpics, toasts, activeWorkspaceId, activeProjectId, channel,
                  rt, dbIssues, dbSprints, now, calls, permAsked, permResult,
                  ret,
                  allTeams, dbTeams, selectedIssue, isLoading, auth,
                  dbWorkspaces, dbProjects >>

\* fetchProjectData after the await: setAllIssues(iss); setAllSprints(sps);
\* setAllEpics(eps)
fetchProjectData(s) ==
  /\ ops[s].kind = "fetch" /\ ops[s].stage \in {"ok", "fail"}
  /\ IF ops[s].stage = "ok"
       THEN /\ allIssues' = ops[s].iss
            /\ allSprints' = ops[s].sps
            /\ allEpics' = ops[s].eps
       ELSE UNCHANGED << allIssues, allSprints, allEpics >>
  /\ ops' = [ops EXCEPT ![s] = Idle]
  /\ done' = Settled(ops[s])
  /\ UNCHANGED << currentUser, workspaces, allProjects, toasts,
                  activeWorkspaceId, activeProjectId, channel, rt, dbIssues,
                  dbSprints, now, calls, permAsked, permResult, ret,
                  allTeams, dbTeams, selectedIssue, isLoading, auth,
                  dbWorkspaces, dbProjects >>


\* ------------------------------------------------------------ remote service
\* a realtime event reaches the client only on the channel of its project
\* (filter: projectId=eq.<activeProjectId>)
Emit(q, pid, ev) ==
  IF pid \in channel THEN Append(q, ev @@ [ch |-> pid]) ELSE q

\* sprintId: issue.sprintId || null
OrNull(v) == IF v = Undefined THEN Null ELSE v

\* what the remote service stores for the columns a create did not send
DbDefaults ==
  { [comments |-> << >>, subtasks |-> << >>, createdAt |-> now,
     updatedAt |-> now],
    [comments |-> NoList, subtasks |-> NoList, createdAt |-> NoTime,
     updatedAt |-> NoTime] }

\* ------------------------------------------------------------ addIssue
\* sprintId: sprintId || null, of CreateIssueModal.handleSubmit
FormSprintId(chosen) == IF chosen = NoId THEN Null ELSE chosen

\* addIssue's inputs: the create-issue form sends status TODO and the sprint
\* chosen in it ('' when none is)
NewIssueInputs ==
  { [title |-> "t", status |-> "TODO", sprintId |-> FormSprintId(chosen),
     chosen |-> chosen] :
      chosen \in {NoId} \cup
                  {allSprints[k].id : k \in {j \in DOMAIN allSprints :
                                               allSprints[j].status = "ACTIVE"}} }

ReadableIdNoKey == << NoId, now % SuffixMod >>

\* `${activeProject.key}-${Date.now().toString().slice(-4)}`
ReadableId == << activeProject.key, now % SuffixMod >>

\* const issue: Issue = { ...newIssue, projectId, id, comments: [], ... }
OptimisticIssue(newIssue) ==
  [id |-> ReadableId, projectId |-> activeProject.id, title |-> newIssue.title,
   status |-> newIssue.status, sprintId |-> newIssue.sprintId,
   comments |-> << >>, subtasks |-> << >>, createdAt |-> now,
   updatedAt |-> now, obj |-> calls + 1]

\* api.createIssue({ ...newIssue, projectId: activeProject.id, id: readableId })
CreatePayload(newIssue) ==
  [id |-> ReadableId, projectId |-> activeProject.id, title |-> newIssue.title,
   status |-> newIssue.status, sprintId |-> OrNull(newIssue.sprintId)]

\* addIssue up to its await: if (!activeProject) return; else the optimistic
\* entry, the toast and the remote create
addIssue(newIssue) ==
  /\ isAuthenticated /\ CanCall
  /\ calls' = calls + 1
  /\ IF HasActiveProject
       THEN /\ allIssues' = Append(allIssues, OptimisticIssue(newIssue))
            /\ toasts' = WithToast(toasts, "Issue created", "success")
            /\ ops' = [ops EXCEPT ![NewSlot] =
                         [kind |-> "add", stage |-> "sent", id |-> ReadableId,
                          issue |-> OptimisticIssue(newIssue),
                          payload |-> CreatePayload(newIssue),
                          newIssue |-> newIssue,
                          activeProject |-> activeProject,
                          pre |-> allIssues]]
            /\ done' = NoDone
       ELSE /\ done' = Settled([kind |-> "add", stage |-> "return",
                                 toasts |-> toasts, ops |-> ops,
                                 dbIssues |-> dbIssues])
            /\ UNCHANGED << allIssues, toasts, ops >>
  /\ UNCHANGED << currentUser, workspaces, allProjects, allSprints, allEpics,
                  activeWorkspaceId, activeProjectId, channel, rt, dbIssues,
                  dbSprints, now, permAsked, permResult, ret,
                  allTeams, dbTeams, selectedIssue, isLoading, auth,
                  dbWorkspaces, dbProjects >>

\* the row the remote service stores and returns for a create
CreatedRow(payload, id, d) ==
  [id |-> id, projectId |-> payload.projectId, title |-> payload.title,
   status |-> payload.status, sprintId |-> payload.sprintId,
   comments |-> d.comments, subtasks |-> d.subtasks,
   createdAt |-> d.createdAt, updatedAt |-> d.updatedAt, obj |-> 0]

\* the id of a created row: the insert carries the id, the row returned has it
ServerIds(s) == {ops[s].payload.id}

\* supabase.from('issues').insert(payload).select().single(): the insert fails
\* on an id the table already holds, and may fail for any other reason
ServeCreate(s) ==
  /\ ops[s].kind = "add" /\ ops[s].stage = "sent"
  /\ \/ /\ ops' = [ops EXCEPT ![s] = [ops[s] EXCEPT !.stage = "fail"]]
        /\ UNCHANGED << dbIssues, rt >>
     \/ /\ ~SomeId(dbIssues, ops[s].payload.id)
        /\ \E d \in DbDefaults, id \in ServerIds(s) :
             LET row == CreatedRow(ops[s].payload, id, d)
             IN  /\ ~SomeId(dbIssues, id)
                 /\ dbIssues' = Append(dbIssues, row)
                 /\ rt' = Emit(rt, row.projectId,
                               [table |-> "issues", type |-> "INSERT", new |-> row])
                 /\ ops' = [ops EXCEPT ![s] =
                              [kind |-> "add", stage |-> "ok", id |-> ops[s].id,
                               issue |-> ops[s].issue, payload |-> ops[s].payload,
                               newIssue |-> ops[s].newIssue,
                               activeProject |-> ops[s].activeProject,
                               pre |-> ops[s].pre, created |-> row]]
  /\ UNCHANGED << currentUser, workspaces, allProjects, allIssues, allSprints,
                  allEpics, toasts, activeWorkspaceId, activeProjectId, channel,
                  dbSprints, now, calls, permAsked, permResult, ret,
                  allTeams, dbTeams, selectedIssue, isLoading, auth,
                  dbWorkspaces, dbProjects >>

\* the reconciliation of addIssue:
\*   if (prev.some(i => i.id === createdIssue.id && i !== issue))
\*        return prev.filter(i => i.id !== readableId);
\*   return prev.map(i => i.id === readableId ? createdIssue : i);
Reconcile(prev, issue, readableId, createdIssue) ==
  IF \E k \in DOMAIN prev :
       prev[k].id = createdIssue.id /\ prev[k].obj # issue.obj
    THEN FilterOutId(prev, readableId)
    ELSE MapById(prev, readableId, createdIssue)

\* addIssue after the await
addIssueDone(s) ==
  /\ ops[s].kind = "add" /\ ops[s].stage \in {"ok", "fail"}
  /\ IF ops[s].stage = "ok"
       THEN /\ allIssues' =
                 Reconcile(allIssues, ops[s].issue, ops[s].id, ops[s].created)
            /\ UNCHANGED toasts
       ELSE /\ allIssues' = FilterOutId(allIssues, ops[s].id)
            /\ toasts' = WithToast(toasts, "Failed to create issue on server", "error")
  /\ ops' = [ops EXCEPT ![s] = Idle]
  /\ done' = Settled(ops[s])
  /\ UNCHANGED << currentUser, workspaces, allProjects, allSprints, allEpics,
                  activeWorkspaceId, activeProjectId, channel, rt, dbIssues,
                  dbSprints, now, calls, permAsked, permResult, ret,
                  allTeams, dbTeams, selectedIssue, isLoading, auth,
                  dbWorkspaces, dbProjects >>


\* ------------------------------------------------------------ updateIssue
\* the updates the views send: a status (board, issue modal) or a sprint
\* (backlog, issue modal)
UpdateInputs ==
  { [field |-> "status", value |-> v] : v \in {DONE} }
    \cup { [field |-> "sprintId", value |-> v] :
             v \in {Null} \cup {allSprints[k].id : k \in DOMAIN allSprints} }

\* { ...updatedIssue, ...updates, updatedAt: new Date().toISOString() }
NewItem(updatedIssue, updates) ==
  [updatedIssue EXCEPT
     !.status = IF updates.field = "status" THEN updates.value ELSE @,
     !.sprintId = IF updates.field = "sprintId" THEN updates.value ELSE @,
     !.comments = IF updates.field = "comments" THEN updates.value ELSE @,
     !.subtasks = IF updates.field = "subtasks" THEN updates.value ELSE @,
     !.updatedAt = now,
     !.obj = 0]

\* updateIssue up to its await, run with the collection `closed` its closure
\* holds: the issue is looked up in `closed`, the new item is written through a
\* functional update of the current collection
UpdateStart(closed, cur, id, updates) ==
  MapById(cur, id, NewItem(closed[FindIx(closed, id)], updates))

\* the catch of updateIssue: prev.map(issue => issue.id === id ? updatedIssue : issue)
UpdateRollback(cur, id, updatedIssue, closed) == MapById(cur, id, updatedIssue)

updateIssue(id, updates) ==
  /\ isAuthenticated /\ CanCall
  /\ SomeId(allIssues, id)
  /\ allIssues' = UpdateStart(allIssues, allIssues, id, updates)
  /\ ops' = [ops EXCEPT ![NewSlot] =
               [kind |-> "update", stage |-> "sent", id |-> id,
                old |-> allIssues[FindIx(allIssues, id)],
                new |-> NewItem(allIssues[FindIx(allIssues, id)], updates),
                pre |-> allIssues]]
  /\ calls' = calls + 1
  /\ UNCHANGED << currentUser, workspaces, allProjects, allSprints, allEpics,
                  toasts, activeWorkspaceId, activeProjectId, channel, rt,
                  dbIssues, dbSprints, now, permAsked, permResult, ret,
                  allTeams, dbTeams, selectedIssue, isLoading, auth,
                  dbWorkspaces, dbProjects >>

\* the row api.updateIssue writes: { ...issue, sprintId: issue.sprintId || null }
UpdatePayload(issue) == [issue EXCEPT !.sprintId = OrNull(@), !.obj = 0]

\* update(payload).eq('id', issue.id) on the remote table: a row is replaced
\* and announced; an id the table does not hold changes nothing and is no error
DbUpdateIssue(item) ==
  IF SomeId(dbIssues, item.id)
    THEN /\ dbIssues' = MapById(dbIssues, item.id, UpdatePayload(item))
         /\ rt' = Emit(rt, item.projectId,
                       [table |-> "issues", type |-> "UPDATE",
                        new |-> UpdatePayload(item)])
    ELSE UNCHANGED << dbIssues, rt >>

ServeUpdate(s) ==
  /\ ops[s].kind = "update" /\ ops[s].stage = "sent"
  /\ \/ /\ ops' = [ops EXCEPT ![s] = [ops[s] EXCEPT !.stage = "fail"]]
        /\ UNCHANGED << dbIssues, rt >>
     \/ /\ ops' = [ops EXCEPT ![s] = [ops[s] EXCEPT !.stage = "ok"]]
        /\ DbUpdateIssue(ops[s].new)
  /\ UNCHANGED << currentUser, workspaces, allProjects, allIssues, allSprints,
                  allEpics, toasts, activeWorkspaceId, activeProjectId, channel,
                  dbSprints, now, calls, permAsked, permResult, ret,
                  allTeams, dbTeams, selectedIssue, isLoading, auth,
                  dbWorkspaces, dbProjects >>

\* updateIssue after the await
updateIssueDone(s) ==
  /\ ops[s].kind = "update" /\ ops[s].stage \in {"ok", "fail"}
  /\ IF ops[s].stage = "ok"
       THEN UNCHANGED << allIssues, toasts >>
       ELSE /\ allIssues' =
                 UpdateRollback(allIssues, ops[s].id, ops[s].old, ops[s].pre)
            /\ toasts' = WithToast(toasts, "Failed to update issue", "error")
  /\ ops' = [ops EXCEPT ![s] = Idle]
  /\ done' = Settled(ops[s])
  /\ UNCHANGED << currentUser, workspaces, allProjects, allSprints, allEpics,
                  activeWorkspaceId, activeProjectId, channel, rt, dbIssues,
                  dbSprints, now, calls, permAsked, permResult, ret,
                  allTeams, dbTeams, selectedIssue, isLoading, auth,
                  dbWorkspaces, dbProjects >>

\* ------------------------------------------------------------ deleteIssue
\* const previousIssues = [...allIssues]; setAllIssues(prev => prev.filter(...))
deleteIssue(id) ==
  /\ isAuthenticated /\ CanCall
  /\ SomeId(allIssues, id)
  /\ allIssues' = FilterOutId(allIssues, id)
  /\ ops' = [ops EXCEPT ![NewSlot] =
               [kind |-> "delete", stage |-> "sent", id |-> id,
                previousIssues |-> allIssues]]
  /\ calls' = calls + 1
  /\ UNCHANGED << currentUser, workspaces, allProjects, allSprints, allEpics,
                  toasts, activeWorkspaceId, activeProjectId, channel, rt,
                  dbIssues, dbSprints, now, permAsked, permResult, ret,
                  allTeams, dbTeams, selectedIssue, isLoading, auth,
                  dbWorkspaces, dbProjects >>

\* delete().eq('id', issueId) on the remote table
ServeDelete(s) ==
  /\ ops[s].kind = "delete" /\ ops[s].stage = "sent"
  /\ \/ /\ ops' = [ops EXCEPT ![s] = [ops[s] EXCEPT !.stage = "fail"]]
        /\ UNCHANGED << dbIssues, rt >>
     \/ /\ ops' = [ops EXCEPT ![s] = [ops[s] EXCEPT !.stage = "ok"]]
        /\ IF SomeId(dbIssues, ops[s].id)
             THEN /\ dbIssues' = FilterOutId(dbIssues, ops[s].id)
                  /\ rt' = Emit(rt, dbIssues[FindIx(dbIssues, ops[s].id)].projectId,
                                [table |-> "issues", type |-> "DELETE",
                                 old |-> [id |-> ops[s].id]])
             ELSE UNCHANGED << dbIssues, rt >>
  /\ UNCHANGED << currentUser, workspaces, allProjects, allIssues, allSprints,
                  allEpics, toasts, activeWorkspaceId, activeProjectId, channel,
                  dbSprints, now, calls, permAsked, permResult, ret,
                  allTeams, dbTeams, selectedIssue, isLoading, auth,
                  dbWorkspaces, dbProjects >>

\* the catch of deleteIssue: setAllIssues(previousIssues)
DeleteRollback(cur, previousIssues) == previousIssues

\* deleteIssue after the await
deleteIssueDone(s) ==
  /\ ops[s].kind = "delete" /\ ops[s].stage \in {"ok", "fail"}
  /\ IF ops[s].stage = "ok"
       THEN /\ UNCHANGED allIssues
            /\ toasts' = WithToast(toasts, "Issue deleted", "success")
       ELSE /\ allIssues' = DeleteRollback(allIssues, ops[s].previousIssues)
            /\ toasts' = WithToast(toasts, "Failed to delete issue", "error")
  /\ ops' = [ops EXCEPT ![s] = Idle]
  /\ done' = Settled(ops[s])
  /\ UNCHANGED << currentUser, workspaces, allProjects, allSprints, allEpics,
                  activeWorkspaceId, activeProjectId, channel, rt, dbIssues,
                  dbSprints, now, calls, permAsked, permResult, ret,
                  allTeams, dbTeams, selectedIssue, isLoading, auth,
                  dbWorkspaces, dbProjects >>

\* ------------------------------------------------------------ addComment
\* the texts the comment box of the issue modal sends
CommentTexts == {"x", "y"}

\* { id: c-<Date.now()>, text, userId, createdAt: new Date().toISOString() }
NewComment(text, userId) ==
  [id |-> now, text |-> text, userId |-> userId, createdAt |-> now]

\* [...issue.comments, newComment], the issue found in the collection of the
\* closure
UpdatedComments(issues, issueId, text, userId) ==
  Append(issues[FindIx(issues, issueId)].comments, NewComment(text, userId))

\* addComment looks the issue up and hands the whole new list to updateIssue;
\* [...issue.comments, newComment] throws for a list that is null and the
\* handler ends there
addComment(issueId, text, userId) ==
  /\ SomeId(allIssues, issueId)
  /\ allIssues[FindIx(allIssues, issueId)].comments # NoList
  /\ updateIssue(issueId,
                 [field |-> "comments",
                  value |-> UpdatedComments(allIssues, issueId, text, userId)])

\* ------------------------------------------------------------ issue modal
\* the board opens the modal with the issue object of the card clicked:
\* onClick={setSelectedIssue}; the modal renders issue.subtasks.filter(...) and
\* issue.comments.map(...), which throw for a list that is null, so that no
\* modal is shown for such an issue
openIssue(id) ==
  /\ isAuthenticated
  /\ selectedIssue = NoIssue
  /\ SomeId(allIssues, id)
  /\ allIssues[FindIx(allIssues, id)].subtasks # NoList
  /\ allIssues[FindIx(allIssues, id)].comments # NoList
  /\ selectedIssue' = allIssues[FindIx(allIssues, id)]
  /\ UNCHANGED << currentUser, workspaces, allProjects, allIssues, allSprints,
                  allEpics, toasts, activeWorkspaceId, activeProjectId, channel,
                  rt, dbIssues, dbSprints, ops, now, calls, permAsked,
                  permResult, ret, allTeams, dbTeams, isLoading, auth,
                  dbWorkspaces, dbProjects >>

\* onClose={() => setSelectedIssue(null)}
closeIssue ==
  /\ selectedIssue # NoIssue
  /\ selectedIssue' = NoIssue
  /\ UNCHANGED << currentUser, workspaces, allProjects, allIssues, allSprints,
                  allEpics, toasts, activeWorkspaceId, activeProjectId, channel,
                  rt, dbIssues, dbSprints, ops, now, calls, permAsked,
                  permResult, ret, allTeams, dbTeams, isLoading, auth,
                  dbWorkspaces, dbProjects >>

\* the titles typed into the subtask box
SubtaskTitles == {"a", "b"}

\* { id: st-<Date.now()>, title: newSubtask, completed: false }
NewSubtask(title) == [id |-> now, title |-> title, completed |-> FALSE]

\* [...issue.subtasks, subtask], issue being the prop of the modal
AddedSubtasks(issue, title) == Append(issue.subtasks, NewSubtask(title))

\* issue.subtasks.map(st => st.id === subtaskId ? { ...st, completed } : st)
ToggledSubtasks(issue, subtaskId, completed) ==
  [k \in DOMAIN issue.subtasks |->
     IF issue.subtasks[k].id = subtaskId
       THEN [issue.subtasks[k] EXCEPT !.completed = completed]
       ELSE issue.subtasks[k]]

\* issue.subtasks.filter(st => st.id !== subtaskId)
RemainingSubtasks(issue, subtaskId) == FilterOutId(issue.subtasks, subtaskId)

\* what `done` records of a subtask handler of the modal
SubtaskOp(fn, subtaskId) ==
  [kind |-> "subtask", fn |-> fn, subtaskId |-> subtaskId,
   id |-> selectedIssue.id]

addSubtask(title) ==
  /\ selectedIssue # NoIssue
  /\ updateIssue(selectedIssue.id,
                 [field |-> "subtasks",
                  value |-> AddedSubtasks(selectedIssue, title)])
  /\ done' = Settled(SubtaskOp("add", now))

toggleSubtask(subtaskId, completed) ==
  /\ selectedIssue # NoIssue
  /\ updateIssue(selectedIssue.id,
                 [field |-> "subtasks",
                  value |-> ToggledSubtasks(selectedIssue, subtaskId, completed)])
  /\ done' = Settled(SubtaskOp("toggle", subtaskId))

deleteSubtask(subtaskId) ==
  /\ selectedIssue # NoIssue
  /\ updateIssue(selectedIssue.id,
                 [field |-> "subtasks",
                  value |-> RemainingSubtasks(selectedIssue, subtaskId)])
  /\ done' = Settled(SubtaskOp("delete", subtaskId))

\* ------------------------------------------------------------ teams
\* the member selections of the create-team form
MemberChoices == { << >>, << "u2" >>, << "u1", "u2" >> }

\* members.includes(userId)
Includes(members, userId) == \E k \in DOMAIN members : members[k] = userId

\* createTeam up to its await: the new team, led by the signed-in user, with
\* the member ids the form handed over
createTeam(name, memberIds) ==
  /\ SomeId(workspaces, activeWorkspaceId) /\ currentUser # NoUser
  /\ CanCall
  /\ ops' = [ops EXCEPT ![NewSlot] =
               [kind |-> "createTeam", stage |-> "sent",
                newTeam |-> [id |-> << "t", now >>,
                             workspaceId |-> activeWorkspaceId, name |-> name,
                             leadId |-> currentUser.id, members |-> memberIds]]]
  /\ calls' = calls + 1
  /\ UNCHANGED << currentUser, workspaces, allProjects, allIssues, allSprints,
                  allEpics, toasts, activeWorkspaceId, activeProjectId, channel,
                  rt, dbIssues, dbSprints, now, permAsked, permResult, ret,
                  allTeams, dbTeams, selectedIssue, isLoading, auth,
                  dbWorkspaces, dbProjects >>

\* api.createTeam: insert(team); an id the table holds already is refused
ServeCreateTeam(s) ==
  /\ ops[s].kind = "createTeam" /\ ops[s].stage = "sent"
  /\ \/ /\ ops' = [ops EXCEPT ![s] = [ops[s] EXCEPT !.stage = "fail"]]
        /\ UNCHANGED dbTeams
     \/ /\ ~SomeId(dbTeams, ops[s].newTeam.id)
        /\ ops' = [ops EXCEPT ![s] = [ops[s] EXCEPT !.stage = "ok"]]
        /\ dbTeams' = Append(dbTeams, ops[s].newTeam)
  /\ UNCHANGED << currentUser, workspaces, allProjects, allIssues, allSprints,
                  allEpics, toasts, activeWorkspaceId, activeProjectId, channel,
                  rt, dbIssues, dbSprints, now, calls, permAsked, permResult,
                  ret, allTeams, selectedIssue, isLoading, auth,
                  dbWorkspaces, dbProjects >>

\* createTeam after the await; a rejected create leaves the handler through
\* the exception, nothing catches it
createTeamDone(s) ==
  /\ ops[s].kind = "createTeam" /\ ops[s].stage \in {"ok", "fail"}
  /\ IF ops[s].stage = "ok"
       THEN /\ allTeams' = Append(allTeams, ops[s].newTeam)
            /\ toasts' = WithToast(toasts, "Team created", "success")
       ELSE UNCHANGED << allTeams, toasts >>
  /\ ops' = [ops EXCEPT ![s] = Idle]
  /\ done' = Settled(ops[s])
  /\ UNCHANGED << currentUser, workspaces, allProjects, allIssues, allSprints,
                  allEpics, activeWorkspaceId, activeProjectId, channel, rt,
                  dbIssues, dbSprints, now, calls, permAsked, permResult, ret,
                  dbTeams, selectedIssue, isLoading, auth,
                  dbWorkspaces, dbProjects >>

\* what `done` records of a team handler: the op next to the teams, notices
\* and calls it found
TeamSettled(op) ==
  Settled(op @@ [teams |-> allTeams, toasts |-> toasts, ops |-> ops,
                 dbTeams |-> dbTeams])

\* the optimistic write of both member handlers:
\* prev.map(t => t.id === teamId ? updatedTeam : t)
TeamWrite(cur, teamId, updatedTeam) == MapById(cur, teamId, updatedTeam)

\* the catch of both member handlers: prev.map(t => t.id === teamId ? team : t)
TeamRevert(cur, teamId, team) == MapById(cur, teamId, team)

\* the two member handlers up to their await
MemberStart(kind, teamId, userId, updatedTeam) ==
  /\ CanCall
  /\ allTeams' = TeamWrite(allTeams, teamId, updatedTeam)
  /\ ops' = [ops EXCEPT ![NewSlot] =
               [kind |-> kind, stage |-> "sent", teamId |-> teamId,
                userId |-> userId, team |-> allTeams[FindIx(allTeams, teamId)],
                updatedTeam |-> updatedTeam]]
  /\ calls' = calls + 1
  /\ done' = NoDone
  /\ UNCHANGED << currentUser, workspaces, allProjects, allIssues, allSprints,
                  allEpics, toasts, activeWorkspaceId, activeProjectId, channel,
                  rt, dbIssues, dbSprints, now, permAsked, permResult, ret,
                  dbTeams, selectedIssue, isLoading, auth,
                  dbWorkspaces, dbProjects >>

\* a member handler that returns at once
MemberReturn(kind, teamId, userId) ==
  /\ done' = TeamSettled([kind |-> kind, stage |-> "return", teamId |-> teamId,
                          userId |-> userId])
  /\ UNCHANGED << currentUser, workspaces, allProjects, allIssues, allSprints,
                  allEpics, toasts, activeWorkspaceId, activeProjectId, channel,
                  rt, dbIssues, dbSprints, ops, now, calls, permAsked,
                  permResult, ret, allTeams, dbTeams, selectedIssue, isLoading, auth,
                  dbWorkspaces, dbProjects >>

\* if (!team || team.members.includes(userId)) return; else the optimistic
\* list with the user appended and the remote update
addMemberToTeam(teamId, userId) ==
  LET team == allTeams[FindIx(allTeams, teamId)]
  IN
  IF ~SomeId(allTeams, teamId) \/ Includes(team.members, userId)
    THEN MemberReturn("addMember", teamId, userId)
    ELSE MemberStart("addMember", teamId, userId,
                     [team EXCEPT !.members = Append(@, userId)])

\* if (!team) return; else the optimistic list without the user and the
\* remote update
removeMemberFromTeam(teamId, userId) ==
  LET team == allTeams[FindIx(allTeams, teamId)]
  IN
  IF ~SomeId(allTeams, teamId)
    THEN MemberReturn("removeMember", teamId, userId)
    ELSE MemberStart("removeMember", teamId, userId,
                     [team EXCEPT
                        !.members = SelectSeq(@, LAMBDA id : id # userId)])

\* api.updateTeam: update({ members: team.members }).eq('id', team.id)
ServeUpdateTeam(s) ==
  /\ ops[s].kind \in {"addMember", "removeMember"} /\ ops[s].stage = "sent"
  /\ \/ /\ ops' = [ops EXCEPT ![s] = [ops[s] EXCEPT !.stage = "fail"]]
        /\ UNCHANGED dbTeams
     \/ /\ ops' = [ops EXCEPT ![s] = [ops[s] EXCEPT !.stage = "ok"]]
        /\ dbTeams' = [k \in DOMAIN dbTeams |->
                         IF dbTeams[k].id = ops[s].teamId
                           THEN [dbTeams[k] EXCEPT
                                   !.members = ops[s].updatedTeam.members]
                           ELSE dbTeams[k]]
  /\ UNCHANGED << currentUser, workspaces, allProjects, allIssues, allSprints,
                  allEpics, toasts, activeWorkspaceId, activeProjectId, channel,
                  rt, dbIssues, dbSprints, now, calls, permAsked, permResult,
                  ret, allTeams, selectedIssue, isLoading, auth,
                  dbWorkspaces, dbProjects >>

\* a member handler after the await
MemberDone(s, kind, success, failure) ==
  /\ ops[s].kind = kind /\ ops[s].stage \in {"ok", "fail"}
  /\ IF ops[s].stage = "ok"
       THEN /\ UNCHANGED allTeams
            /\ toasts' = WithToast(toasts, success, "success")
       ELSE /\ allTeams' = TeamRevert(allTeams, ops[s].teamId, ops[s].team)
            /\ toasts' = WithToast(toasts, failure, "error")
  /\ ops' = [ops EXCEPT ![s] = Idle]
  /\ done' = TeamSettled(ops[s])
  /\ UNCHANGED << currentUser, workspaces, allProjects, allIssues, allSprints,
                  allEpics, activeWorkspaceId, activeProjectId, channel, rt,
                  dbIssues, dbSprints, now, calls, permAsked, permResult, ret,
                  dbTeams, selectedIssue, isLoading, auth,
                  dbWorkspaces, dbProjects >>

addMemberToTeamDone(s) ==
  MemberDone(s, "addMember", "Member added", "Failed to add member")

removeMemberFromTeamDone(s) ==
  MemberDone(s, "removeMember", "Member removed", "Failed to remove member")

\* the member handlers after the await as the second copy of the store has
\* them: catch (e) { setAllTeams(prev => prev.map(...team...)); }, the revert
\* and nothing else
MemberDoneSilent(s, kind, success) ==
  /\ ops[s].kind = kind /\ ops[s].stage \in {"ok", "fail"}
  /\ IF ops[s].stage = "ok"
       THEN /\ UNCHANGED allTeams
            /\ toasts' = WithToast(toasts, success, "success")
       ELSE /\ allTeams' = TeamRevert(allTeams, ops[s].teamId, ops[s].team)
            /\ UNCHANGED toasts
  /\ ops' = [ops EXCEPT ![s] = Idle]
  /\ done' = TeamSettled(ops[s])
  /\ UNCHANGED << currentUser, workspaces, allProjects, allIssues, allSprints,
                  allEpics, activeWorkspaceId, activeProjectId, channel, rt,
                  dbIssues, dbSprints, now, calls, permAsked, permResult, ret,
                  dbTeams, selectedIssue, isLoading, auth,
                  dbWorkspaces, dbProjects >>

addMemberToTeamDoneSilent(s) == MemberDoneSilent(s, "addMember", "Member added")

removeMemberFromTeamDoneSilent(s) ==
  MemberDoneSilent(s, "removeMember", "Member removed")

\* ------------------------------------------------------------ realtime
OnIssueEventNoGuard(prev, ev) ==
  CASE ev.type = "INSERT" -> Append(prev, ev.new)
    [] ev.type = "UPDATE" -> MapById(prev, ev.new.id, ev.new)
    [] ev.type = "DELETE" -> FilterOutId(prev, ev.old.id)

\* the 'issues' handler of the channel
OnIssueEvent(prev, ev) ==
  CASE ev.type = "INSERT" ->
         IF SomeId(prev, ev.new.id) THEN prev ELSE Append(prev, ev.new)
    [] ev.type = "UPDATE" -> MapById(prev, ev.new.id, ev.new)
    [] ev.type = "DELETE" -> FilterOutId(prev, ev.old.id)

\* the 'sprints' handler of the channel
OnSprintEvent(prev, ev) ==
  CASE ev.type = "INSERT" ->
         IF SomeId(prev, ev.new.id) THEN prev ELSE Append(prev, ev.new)
    [] ev.type = "UPDATE" -> MapById(prev, ev.new.id, ev.new)
    [] OTHER -> prev

\* a sprint row is deleted in the remote table by another client; the channel
\* listens to every event of the table (event: '*')
RemoteDeleteSprint(id) ==
  /\ SomeId(dbSprints, id)
  /\ dbSprints' = FilterOutId(dbSprints, id)
  /\ rt' = Emit(rt, dbSprints[FindIx(dbSprints, id)].projectId,
                [table |-> "sprints", type |-> "DELETE", old |-> [id |-> id]])
  /\ UNCHANGED << currentUser, workspaces, allProjects, allIssues, allSprints,
                  allEpics, toasts, activeWorkspaceId, activeProjectId, channel,
                  dbIssues, ops, now, calls, permAsked, permResult, ret,
                  allTeams, dbTeams, selectedIssue, isLoading, auth,
                  dbWorkspaces, dbProjects >>

\* the next event of the subscribed channel is handed to its handler
Deliver ==
  /\ rt # << >>
  /\ LET ev == Head(rt)
     IN  IF ev.table = "issues"
           THEN /\ allIssues' = OnIssueEvent(allIssues, ev)
                /\ UNCHANGED allSprints
           ELSE /\ allSprints' = OnSprintEvent(allSprints, ev)
                /\ UNCHANGED allIssues
  /\ rt' = Tail(rt)
  /\ done' = Settled([kind |-> "event", ev |-> Head(rt)])
  /\ UNCHANGED << currentUser, workspaces, allProjects, allEpics, toasts,
                  activeWorkspaceId, activeProjectId, channel, dbIssues,
                  dbSprints, ops, now, calls, permAsked, permResult, ret,
                  allTeams, dbTeams, selectedIssue, isLoading, auth,
                  dbWorkspaces, dbProjects >>


\* ------------------------------------------------------------ sprints
\* createSprint: await api.createSprint(newSprint); showToast("Sprint created")
createSprint ==
  /\ isAuthenticated /\ CanCall
  /\ HasActiveProject
  /\ ops' = [ops EXCEPT ![NewSlot] =
               [kind |-> "createSprint", stage |-> "sent",
                sprint |-> [id |-> "sp-" \o ToString(now),
                            projectId |-> activeProject.id,
                            status |-> "PLANNED"]]]
  /\ calls' = calls + 1
  /\ UNCHANGED << currentUser, workspaces, allProjects, allIssues, allSprints,
                  allEpics, toasts, activeWorkspaceId, activeProjectId, channel,
                  rt, dbIssues, dbSprints, now, permAsked, permResult, ret,
                  allTeams, dbTeams, selectedIssue, isLoading, auth,
                  dbWorkspaces, dbProjects >>

\* supabase.from('sprints').insert(sprint).select().single()
ServeCreateSprint(s) ==
  /\ ops[s].kind = "createSprint" /\ ops[s].stage = "sent"
  /\ \/ /\ ops' = [ops EXCEPT ![s] = [ops[s] EXCEPT !.stage = "fail"]]
        /\ UNCHANGED << dbSprints, rt >>
     \/ /\ ~SomeId(dbSprints, ops[s].sprint.id)
        /\ ops' = [ops EXCEPT ![s] = [ops[s] EXCEPT !.stage = "ok"]]
        /\ dbSprints' = Append(dbSprints, ops[s].sprint)
        /\ rt' = Emit(rt, ops[s].sprint.projectId,
                      [table |-> "sprints", type |-> "INSERT",
                       new |-> ops[s].sprint])
  /\ UNCHANGED << currentUser, workspaces, allProjects, allIssues, allSprints,
                  allEpics, toasts, activeWorkspaceId, activeProjectId, channel,
                  dbIssues, now, calls, permAsked, permResult, ret,
                  allTeams, dbTeams, selectedIssue, isLoading, auth,
                  dbWorkspaces, dbProjects >>

\* createSprint after the await; a rejected call leaves the handler uncaught
createSprintDone(s) ==
  /\ ops[s].kind = "createSprint" /\ ops[s].stage \in {"ok", "fail"}
  /\ toasts' = IF ops[s].stage = "ok"
                 THEN WithToast(toasts, "Sprint created", "success")
                 ELSE toasts
  /\ ops' = [ops EXCEPT ![s] = Idle]
  /\ done' = Settled(ops[s])
  /\ UNCHANGED << currentUser, workspaces, allProjects, allIssues, allSprints,
                  allEpics, activeWorkspaceId, activeProjectId, channel, rt,
                  dbIssues, dbSprints, now, calls, permAsked, permResult,
                  ret,
                  allTeams, dbTeams, selectedIssue, isLoading, auth,
                  dbWorkspaces, dbProjects >>

\* startSprint up to its await: the sprint is looked up, updatedSprint is
\* { ...sprint, status: 'ACTIVE', ... } and the remote update is sent; nothing
\* is written locally
startSprint(sprintId) ==
  /\ isAuthenticated /\ CanCall
  /\ SomeId(allSprints, sprintId)
  /\ ops' = [ops EXCEPT ![NewSlot] =
               [kind |-> "start", stage |-> "sent", sprintId |-> sprintId,
                sprint |-> allSprints[FindIx(allSprints, sprintId)],
                updatedSprint |->
                  [allSprints[FindIx(allSprints, sprintId)]
                     EXCEPT !.status = "ACTIVE"]]]
  /\ calls' = calls + 1
  /\ UNCHANGED << currentUser, workspaces, allProjects, allIssues, allSprints,
                  allEpics, toasts, activeWorkspaceId, activeProjectId, channel,
                  rt, dbIssues, dbSprints, now, permAsked, permResult, ret,
                  allTeams, dbTeams, selectedIssue, isLoading, auth,
                  dbWorkspaces, dbProjects >>

\* update(updatedSprint).eq('id', sprint.id) on the remote table
ServeStartSprint(s) ==
  /\ ops[s].kind = "start" /\ ops[s].stage = "sent"
  /\ \/ /\ ops' = [ops EXCEPT ![s] = [ops[s] EXCEPT !.stage = "fail"]]
        /\ UNCHANGED << dbSprints, rt >>
     \/ /\ ops' = [ops EXCEPT ![s] = [ops[s] EXCEPT !.stage = "ok"]]
        /\ LET row == ops[s].updatedSprint
           IN  IF SomeId(dbSprints, row.id)
                 THEN /\ dbSprints' = MapById(dbSprints, row.id, row)
                      /\ rt' = Emit(rt, row.projectId,
                                    [table |-> "sprints", type |-> "UPDATE",
                                     new |-> row])
                 ELSE UNCHANGED << dbSprints, rt >>
  /\ UNCHANGED << currentUser, workspaces, allProjects, allIssues, allSprints,
                  allEpics, toasts, activeWorkspaceId, activeProjectId, channel,
                  dbIssues, now, calls, permAsked, permResult, ret,
                  allTeams, dbTeams, selectedIssue, isLoading, auth,
                  dbWorkspaces, dbProjects >>

\* startSprint after the await: the toast; a rejected call leaves the handler
\* uncaught
startSprintDone(s) ==
  /\ ops[s].kind = "start" /\ ops[s].stage \in {"ok", "fail"}
  /\ toasts' = IF ops[s].stage = "ok"
                 THEN WithToast(toasts, "started!", "success")
                 ELSE toasts
  /\ ops' = [ops EXCEPT ![s] = Idle]
  /\ done' = Settled(ops[s])
  /\ UNCHANGED << currentUser, workspaces, allProjects, allIssues, allSprints,
                  allEpics, activeWorkspaceId, activeProjectId, channel, rt,
                  dbIssues, dbSprints, now, calls, permAsked, permResult, ret,
                  allTeams, dbTeams, selectedIssue, isLoading, auth,
                  dbWorkspaces, dbProjects >>

PlannedSprintsAnyStatus(closedSprints, apid) ==
  SelectSeq(closedSprints, LAMBDA x : x.projectId = apid)

\* plannedSprints = allSprints.filter(s => s.projectId === activeProjectId &&
\*                                         s.status === 'PLANNED')
PlannedSprints(closedSprints, apid) ==
  SelectSeq(closedSprints,
            LAMBDA x : x.projectId = apid /\ x.status = "PLANNED")

\* let nextSprintId = null; if NEXT_SPRINT and a planned sprint exists, the first
NextSprintId(closedSprints, apid, spilloverAction) ==
  IF spilloverAction = "NEXT_SPRINT" /\ Len(PlannedSprints(closedSprints, apid)) > 0
    THEN PlannedSprints(closedSprints, apid)[1].id
    ELSE Null

\* issues.filter(i => i.sprintId === sprintId && i.status !== Status.DONE)
IssuesToMove(closedIssues, sprintId) ==
  SelectSeq(closedIssues, LAMBDA i : i.sprintId = sprintId /\ i.status # DONE)

\* completeSprint up to its first await: the sprint is looked up and the remote
\* update is sent; nothing is written locally
completeSprint(sprintId, spilloverAction) ==
  /\ isAuthenticated /\ CanCall
  /\ SomeId(allSprints, sprintId)
  /\ ops' = [ops EXCEPT ![NewSlot] =
               [kind |-> "complete", phase |-> "sprint", stage |-> "sent",
                sprintId |-> sprintId, spilloverAction |-> spilloverAction,
                sprint |-> allSprints[FindIx(allSprints, sprintId)],
                issues |-> allIssues, allSprints |-> allSprints,
                activeProjectId |-> activeProjectId,
                k |-> 0, old |-> Idle, new |-> Idle,
                solo |-> TRUE, left |-> allIssues, failed |-> {}]]
  /\ calls' = calls + 1
  /\ UNCHANGED << currentUser, workspaces, allProjects, allIssues, allSprints,
                  allEpics, toasts, activeWorkspaceId, activeProjectId, channel,
                  rt, dbIssues, dbSprints, now, permAsked, permResult, ret,
                  allTeams, dbTeams, selectedIssue, isLoading, auth,
                  dbWorkspaces, dbProjects >>

\* update(sprint).eq('id', sprint.id) with { ...sprint, status: 'COMPLETED' }
ServeSprintUpdate(s) ==
  /\ ops[s].kind = "complete" /\ ops[s].phase = "sprint" /\ ops[s].stage = "sent"
  /\ \/ /\ ops' = [ops EXCEPT ![s] = [ops[s] EXCEPT !.stage = "fail"]]
        /\ UNCHANGED << dbSprints, rt >>
     \/ /\ ops' = [ops EXCEPT ![s] = [ops[s] EXCEPT !.stage = "ok"]]
        /\ LET row == [ops[s].sprint EXCEPT !.status = "COMPLETED"]
           IN  IF SomeId(dbSprints, row.id)
                 THEN /\ dbSprints' = MapById(dbSprints, row.id, row)
                      /\ rt' = Emit(rt, row.projectId,
                                    [table |-> "sprints", type |-> "UPDATE",
                                     new |-> row])
                 ELSE UNCHANGED << dbSprints, rt >>
  /\ UNCHANGED << currentUser, workspaces, allProjects, allIssues, allSprints,
                  allEpics, toasts, activeWorkspaceId, activeProjectId, channel,
                  dbIssues, now, calls, permAsked, permResult, ret,
                  allTeams, dbTeams, selectedIssue, isLoading, auth,
                  dbWorkspaces, dbProjects >>

\* api.updateIssue(newItem) of the updateIssue call completeSprint awaits
ServeMove(s) ==
  /\ ops[s].kind = "complete" /\ ops[s].phase = "move" /\ ops[s].stage = "sent"
  /\ \/ /\ ops' = [ops EXCEPT ![s] = [ops[s] EXCEPT !.stage = "fail"]]
        /\ UNCHANGED << dbIssues, rt >>
     \/ /\ ops' = [ops EXCEPT ![s] = [ops[s] EXCEPT !.stage = "ok"]]
        /\ DbUpdateIssue(ops[s].new)
  /\ UNCHANGED << currentUser, workspaces, allProjects, allIssues, allSprints,
                  allEpics, toasts, activeWorkspaceId, activeProjectId, channel,
                  dbSprints, now, calls, permAsked, permResult, ret,
                  allTeams, dbTeams, selectedIssue, isLoading, auth,
                  dbWorkspaces, dbProjects >>


\* completeSprint after an await: after the sprint update it picks the
\* destination and the issues to move (from the collections its closure holds),
\* then awaits updateIssue(issue.id, { sprintId: nextSprintId }) for one issue
\* after the other and ends with the toast; a rejected sprint update leaves the
\* handler uncaught
completeSprintStep(s) ==
  /\ ops[s].kind = "complete" /\ ops[s].stage \in {"ok", "fail"}
  /\ LET op == ops[s]
         toMove == IssuesToMove(op.issues, op.sprintId)
         dest == NextSprintId(op.allSprints, op.activeProjectId, op.spilloverAction)
         updates == [field |-> "sprintId", value |-> dest]
         moveFailed == op.phase = "move" /\ op.stage = "fail"
         afterCatch == IF moveFailed
                         THEN UpdateRollback(allIssues, op.new.id, op.old, op.issues)
                         ELSE allIssues
         toastsAfterCatch == IF moveFailed
                               THEN WithToast(toasts, "Failed to update issue", "error")
                               ELSE toasts
         seen == [op EXCEPT !.solo = op.solo /\ allIssues = op.left,
                            !.failed = IF moveFailed THEN @ \cup {op.new.id} ELSE @]
         k1 == op.k + 1
     IN  IF op.phase = "sprint" /\ op.stage = "fail"
           THEN /\ ops' = [ops EXCEPT ![s] = Idle]
                /\ done' = Settled(seen)
                /\ UNCHANGED << allIssues, toasts >>
           ELSE IF k1 <= Len(toMove)
                  THEN LET id == toMove[k1].id
                           updatedIssue == op.issues[FindIx(op.issues, id)]
                       IN  /\ allIssues' = UpdateStart(op.issues, afterCatch, id, updates)
                           /\ toasts' = toastsAfterCatch
                           /\ ops' = [ops EXCEPT ![s] =
                                        [seen EXCEPT !.phase = "move",
                                                     !.stage = "sent",
                                                     !.k = k1,
                                                     !.old = updatedIssue,
                                                     !.new = NewItem(updatedIssue, updates),
                                                     !.left = allIssues']]
                           /\ done' = NoDone
                  ELSE /\ allIssues' = afterCatch
                       /\ toasts' = WithToast(toastsAfterCatch, "Sprint completed!", "success")
                       /\ ops' = [ops EXCEPT ![s] = Idle]
                       /\ done' = Settled(seen)
  /\ UNCHANGED << currentUser, workspaces, allProjects, allSprints, allEpics,
                  activeWorkspaceId, activeProjectId, channel, rt, dbIssues,
                  dbSprints, now, calls, permAsked, permResult, ret,
                  allTeams, dbTeams, selectedIssue, isLoading, auth,
                  dbWorkspaces, dbProjects >>

\* ------------------------------------------------------------ clock
\* Date.now() moves on
Tick ==
  /\ now < MaxClock
  /\ now' = now + 1
  /\ UNCHANGED << currentUser, workspaces, allProjects, allIssues, allSprints,
                  allEpics, toasts, activeWorkspaceId, activeProjectId, channel,
                  rt, dbIssues, dbSprints, ops, calls, permAsked, permResult,
                  ret,
                  allTeams, dbTeams, selectedIssue, isLoading, auth,
                  dbWorkspaces, dbProjects >>

\* ------------------------------------------------------------ toasts
\* prev.filter(t => t.id !== id), of the timer of showToast and of removeToast
WithoutToast(ts, id) == SelectSeq(ts, LAMBDA t : t.id # id)

\* what `done` records of the removal of the k-th notice
ToastOp(kind, k) == [kind |-> kind, k |-> k, toasts |-> toasts]

\* the timer showToast set for the k-th notice of the list fires
expireToast(k) ==
  /\ k \in DOMAIN toasts
  /\ toasts' = WithoutToast(toasts, toasts[k].id)
  /\ done' = Settled(ToastOp("expire", k))
  /\ UNCHANGED << currentUser, workspaces, allProjects, allIssues, allSprints,
                  allEpics, activeWorkspaceId, activeProjectId, channel, rt,
                  dbIssues, dbSprints, ops, now, calls, permAsked, permResult,
                  ret, allTeams, dbTeams, selectedIssue, isLoading, auth,
                  dbWorkspaces, dbProjects >>

\* removeToast(id), from the close button of the k-th notice
removeToast(k) ==
  /\ k \in DOMAIN toasts
  /\ toasts' = WithoutToast(toasts, toasts[k].id)
  /\ done' = Settled(ToastOp("dismiss", k))
  /\ UNCHANGED << currentUser, workspaces, allProjects, allIssues, allSprints,
                  allEpics, activeWorkspaceId, activeProjectId, channel, rt,
                  dbIssues, dbSprints, ops, now, calls, permAsked, permResult,
                  ret, allTeams, dbTeams, selectedIssue, isLoading, auth,
                  dbWorkspaces, dbProjects >>

\* ------------------------------------------------------------ permissions
\* checkPermission: if (!currentUser) return false;
\*                  return hasPermission(currentUser.role, permission)
checkPermission(permission) ==
  /\ permAsked' = permission
  /\ permResult' =
       [done |-> TRUE,
        value |-> IF currentUser = NoUser
                    THEN FALSE
                    ELSE hasPermission(currentUser.role, permission)]
  /\ UNCHANGED << currentUser, workspaces, allProjects, allIssues, allSprints,
                  allEpics, toasts, activeWorkspaceId, activeProjectId, channel,
                  rt, dbIssues, dbSprints, ops, now, calls, done, ret,
                  allTeams, dbTeams, selectedIssue, isLoading, auth,
                  dbWorkspaces, dbProjects >>

\* ------------------------------------------------------------ data access
\* what a function returns, or the Error it throws
Returns(v) == [threw |-> FALSE, value |-> v]
Throws(m) == [threw |-> TRUE, message |-> m]

\* the `error` of a remote answer: null, or an object whose message may be empty
NoError == [null |-> TRUE, message |-> ""]
RemoteErrors ==
  {NoError, [null |-> FALSE, message |-> "permission denied"],
   [null |-> FALSE, message |-> ""]}

\* the entity, id or file a function is called with
ApiArgs == {"a", "b"}

ListFns ==
  {"getUsers", "getWorkspaces", "getProjects", "getIssues", "getSprints",
   "getEpics", "getTeams", "getNotifications"}

WriteFns ==
  {"updateWorkspace", "createProject", "updateProject", "createIssue",
   "updateIssue", "deleteIssue", "createSprint", "updateSprint", "createTeam",
   "updateTeam", "createNotification", "uploadFile"}

ApiFns == ListFns \cup WriteFns

\* handleSupabaseError(error), followed by what the caller does next
handleSupabaseError(error, next) ==
  IF ~error.null
    THEN Throws(IF error.message # "" THEN error.message ELSE "Database error")
    ELSE next

\* the functions of `api`, for the value of isSupabaseConfigured and the error
\* of the remote answer
api(fn, configured, arg, error) ==
  CASE fn \in ListFns ->
         IF configured
           THEN handleSupabaseError(error, Returns("data"))
           ELSE Returns("[]")
    [] fn \in {"createProject", "createIssue"} ->
         IF configured
           THEN handleSupabaseError(error, Returns("data"))
           ELSE Throws("Supabase not configured")
    [] fn \in {"createSprint", "createTeam"} ->
         IF configured
           THEN handleSupabaseError(error, Returns("data"))
           ELSE Returns(arg)
    [] fn \in {"updateWorkspace", "updateProject", "updateIssue", "deleteIssue",
               "updateSprint", "updateTeam"} ->
         IF configured
           THEN handleSupabaseError(error, Returns("undefined"))
           ELSE Returns("undefined")
    [] fn = "createNotification" -> Returns("undefined")
    [] fn = "uploadFile" ->
         IF configured
           THEN IF ~error.null
                  THEN Throws("Upload failed: " \o error.message)
                  ELSE Returns("publicUrl")
           ELSE Throws("Supabase not configured")

\* one call of a function of `api`
apiCall(fn, arg, error) ==
  /\ ret.configured \/ error = NoError
  /\ ret' = [fn |-> fn, configured |-> ret.configured, arg |-> arg,
             error |-> error, outcome |-> api(fn, ret.configured, arg, error)]
  /\ UNCHANGED << currentUser, workspaces, allProjects, allIssues, allSprints,
                  allEpics, toasts, activeWorkspaceId, activeProjectId, channel,
                  rt, dbIssues, dbSprints, ops, now, calls, permAsked,
                  permResult, done,
                  allTeams, dbTeams, selectedIssue, isLoading, auth,
                  dbWorkspaces, dbProjects >>

\* ------------------------------------------------------------ generation
\* a response text as the pieces that matter to suggestSubtasks: the fence
\* marker with and without its json tag, white space, the pieces of a JSON
\* array of strings, other text
Pieces == {"fence-json", "fence", " ", "[", "]", ",", "str", "word"}

RECURSIVE TextsOfLen(_)
TextsOfLen(n) ==
  IF n = 0 THEN {<< >>}
  ELSE {Append(t, p) : t \in TextsOfLen(n - 1), p \in Pieces}

\* the texts of at most max pieces
Texts(max) == UNION {TextsOfLen(n) : n \in 0..max}

\* what ai.models.generateContent answers: a rejection, a response without
\* text, or a response with a text
Responses(max) ==
  {[kind |-> "error"], [kind |-> "notext"]}
    \cup {[kind |-> "text", text |-> t] : t \in Texts(max)}

\* String.prototype.trim
RECURSIVE TrimStart(_)
TrimStart(t) ==
  IF t # << >> /\ Head(t) = " " THEN TrimStart(Tail(t)) ELSE t

RECURSIVE TrimEnd(_)
TrimEnd(t) ==
  IF t # << >> /\ t[Len(t)] = " " THEN TrimEnd(SubSeq(t, 1, Len(t) - 1)) ELSE t

Trim(t) == TrimEnd(TrimStart(t))

\* text.replace(/<marker>/g, '')
Replace(t, marker) == SelectSeq(t, LAMBDA p : p # marker)

ParseFail == [ok |-> FALSE, next |-> 0, value |-> [type |-> "none"]]

\* white space between the tokens of a JSON text is skipped
RECURSIVE SkipSpace(_, _)
SkipSpace(t, i) ==
  IF i <= Len(t) /\ t[i] = " " THEN SkipSpace(t, i + 1) ELSE i

\* JSON.parse on the pieces: a value is a string or an array of values
RECURSIVE ParseValue(_, _)
RECURSIVE ParseElements(_, _, _)
ParseValue(t, at) ==
  LET i == SkipSpace(t, at)
  IN  IF i > Len(t) THEN ParseFail
      ELSE IF t[i] = "str"
        THEN [ok |-> TRUE, next |-> i + 1, value |-> [type |-> "string"]]
      ELSE IF t[i] = "["
        THEN LET j == SkipSpace(t, i + 1)
             IN  IF j <= Len(t) /\ t[j] = "]"
                   THEN [ok |-> TRUE, next |-> j + 1,
                         value |-> [type |-> "array", length |-> 0]]
                   ELSE ParseElements(t, j, 0)
      ELSE ParseFail

ParseElements(t, at, n) ==
  LET v == ParseValue(t, at)
      j == SkipSpace(t, v.next)
  IN  IF ~v.ok \/ j > Len(t) THEN ParseFail
      ELSE IF t[j] = "]"
        THEN [ok |-> TRUE, next |-> j + 1,
              value |-> [type |-> "array", length |-> n + 1]]
      ELSE IF t[j] = "," THEN ParseElements(t, j + 1, n + 1)
      ELSE ParseFail

JSONparse(t) ==
  LET v == ParseValue(t, 1)
  IN  IF v.ok /\ SkipSpace(t, v.next) > Len(t) THEN v ELSE ParseFail

EmptyArray == [type |-> "array", length |-> 0]

\* suggestSubtasks(description), for the client `ai` (null without an API key)
\* and the answer of the generation call
suggestSubtasksResult(ai, response) ==
  IF ~ai THEN Throws("API Key not found")
  ELSE IF response.kind = "error" THEN Returns(EmptyArray)
  ELSE LET trimmed == IF response.kind = "text" THEN Trim(response.text)
                                                 ELSE << >>
           text == IF trimmed # << >> THEN trimmed ELSE << "[", "]" >>
           cleanText == Replace(Replace(text, "fence-json"), "fence")
           parsed == JSONparse(cleanText)
       IN  IF parsed.ok THEN Returns(parsed.value) ELSE Returns(EmptyArray)

\* the call of suggestSubtasks, for the client and the answer that ret holds
suggestSubtasks ==
  /\ ret.fn = "none"
  /\ ret' = [fn |-> "suggestSubtasks", configured |-> ret.configured,
             ai |-> ret.ai, response |-> ret.response,
             outcome |-> suggestSubtasksResult(ret.ai, ret.response)]
  /\ UNCHANGED << currentUser, workspaces, allProjects, allIssues, allSprints,
                  allEpics, toasts, activeWorkspaceId, activeProjectId, channel,
                  rt, dbIssues, dbSprints, ops, now, calls, permAsked,
                  permResult, done,
                  allTeams, dbTeams, selectedIssue, isLoading, auth,
                  dbWorkspaces, dbProjects >>

\* ------------------------------------------------------------ specifications
SprintIds == {allSprints[k].id : k \in DOMAIN allSprints}
IssueIds == {allIssues[k].id : k \in DOMAIN allIssues}
ProjectIds == {allProjects[k].id : k \in DOMAIN allProjects}
WorkspaceIds == {workspaces[k].id : k \in DOMAIN workspaces}

\* the session, the selections, the loading effects, the issue and sprint
\* handlers and the realtime channel; the comment box, the issue modal and the
\* team handlers run next to the handlers they interact with in SpecComments,
\* SpecModal, SpecTeams and SpecMembers
Next ==
  \/ handleSession /\ done' = NoDone
  \/ logout
  \/ \E id \in WorkspaceIds : setActiveWorkspace(id) /\ done' = NoDone
  \/ \E s \in Slot : ServeProjects(s) /\ done' = NoDone
  \/ \E s \in Slot : loadWorkspaceData(s) /\ done' = NoDone
  \/ \E id \in ProjectIds : setActiveProject(id) /\ done' = NoDone
  \/ \E s \in Slot : ServeFetch(s) /\ done' = NoDone
  \/ \E s \in Slot : fetchProjectData(s)
  \/ \E n \in NewIssueInputs : addIssue(n)
  \/ \E s \in Slot : ServeCreate(s) /\ done' = NoDone
  \/ \E s \in Slot : addIssueDone(s)
  \/ \E id \in IssueIds, u \in UpdateInputs : updateIssue(id, u) /\ done' = NoDone
  \/ \E s \in Slot : ServeUpdate(s) /\ done' = NoDone
  \/ \E s \in Slot : updateIssueDone(s)
  \/ \E id \in IssueIds : deleteIssue(id) /\ done' = NoDone
  \/ \E s \in Slot : ServeDelete(s) /\ done' = NoDone
  \/ \E s \in Slot : deleteIssueDone(s)
  \/ createSprint /\ done' = NoDone
  \/ \E s \in Slot : ServeCreateSprint(s) /\ done' = NoDone
  \/ \E s \in Slot : createSprintDone(s)
  \/ \E id \in SprintIds : startSprint(id) /\ done' = NoDone
  \/ \E s \in Slot : ServeStartSprint(s) /\ done' = NoDone
  \/ \E s \in Slot : startSprintDone(s)
  \/ \E id \in SprintIds, a \in {"BACKLOG", "NEXT_SPRINT"} :
       completeSprint(id, a) /\ done' = NoDone
  \/ \E s \in Slot : ServeSprintUpdate(s) /\ done' = NoDone
  \/ \E s \in Slot : ServeMove(s) /\ done' = NoDone
  \/ \E s \in Slot : completeSprintStep(s)
  \/ Deliver
  \/ Tick /\ done' = NoDone

Spec == Init /\ [][Next]_vars

\* the permission check on its own, for a profile with any role string
InitRbac ==
  /\ currentUser \in {NoUser} \cup {[id |-> "u1", role |-> r] : r \in RoleStrings}
  /\ InitStore
  /\ auth = Mounting
  /\ ret = NoCall

NextRbac == \E p \in Permission : checkPermission(p)

SpecRbac == InitRbac /\ [][NextRbac]_vars

\* the data access layer on its own, with the remote data service configured
\* or not
InitApi ==
  /\ currentUser = NoUser
  /\ InitStore
  /\ auth = Mounting
  /\ ret \in {[fn |-> "none", configured |-> c] : c \in BOOLEAN}

NextApi == \E fn \in ApiFns, arg \in ApiArgs, error \in RemoteErrors :
             apiCall(fn, arg, error)

SpecApi == InitApi /\ [][NextApi]_vars

\* suggestSubtasks on its own, with and without the generation client
InitGemini ==
  /\ currentUser = NoUser
  /\ InitStore
  /\ auth = Mounting
  /\ ret \in {[fn |-> "none", configured |-> TRUE, ai |-> ai, response |-> r] :
                ai \in BOOLEAN, r \in Responses(MaxText)}

NextGemini == suggestSubtasks

SpecGemini == InitGemini /\ [][NextGemini]_vars

\* the store once the session, the workspace and project p1 are loaded and no
\* handler is in flight: what handleSession, loadWorkspaceData and
\* fetchProjectData leave behind
Loaded ==
  /\ currentUser = TheUser
  /\ workspaces = SeedWorkspaces
  /\ allProjects = ByWorkspace(SeedProjects, "w1")
  /\ allSprints = ByProject(SeedSprints, "p1")
  /\ allEpics = ByProject(SeedEpics, "p1")
  /\ activeWorkspaceId = "w1"
  /\ activeProjectId = "p1"
  /\ channel = {"p1"}
  /\ rt = << >>
  /\ ret = NoCall
  /\ dbIssues = SeedIssues
  /\ dbSprints = SeedSprints
  /\ allTeams = ByWorkspace(SeedTeams, "w1")
  /\ dbTeams = SeedTeams
  /\ selectedIssue = NoIssue
  /\ isLoading = FALSE
  /\ auth = SignedIn
  /\ dbWorkspaces = SeedWorkspaces
  /\ dbProjects = SeedProjects
  /\ now = 0
  /\ calls = 0
  /\ permAsked = "CREATE_PROJECT"
  /\ permResult = [done |-> FALSE, value |-> FALSE]

Ready ==
  /\ Loaded
  /\ allIssues = ByProject(SeedIssues, "p1")
  /\ toasts = << >>
  /\ ops = [s \in Slot |-> Idle]

InitReady == Ready /\ done = NoDone

\* addIssue next to updateIssue calls and realtime events, from the loaded store
NextAdd ==
  \/ \E n \in NewIssueInputs : addIssue(n)
  \/ \E s \in Slot : ServeCreate(s) /\ done' = NoDone
  \/ \E s \in Slot : addIssueDone(s)
  \/ \E id \in IssueIds, u \in UpdateInputs : updateIssue(id, u) /\ done' = NoDone
  \/ \E s \in Slot : ServeUpdate(s) /\ done' = NoDone
  \/ \E s \in Slot : updateIssueDone(s)
  \/ Deliver
  \/ Tick /\ done' = NoDone

SpecAdd == InitReady /\ [][NextAdd]_vars

\* the workspace menu and the project menu next to the loading effects
NextWorkspace ==
  \/ handleSession /\ done' = NoDone
  \/ \E id \in WorkspaceIds : setActiveWorkspace(id) /\ done' = NoDone
  \/ \E s \in Slot : ServeProjects(s) /\ done' = NoDone
  \/ \E s \in Slot : loadWorkspaceData(s) /\ done' = NoDone
  \/ \E id \in ProjectIds : setActiveProject(id) /\ done' = NoDone
  \/ \E s \in Slot : ServeFetch(s) /\ done' = NoDone
  \/ \E s \in Slot : fetchProjectData(s)

SpecWorkspace == Init /\ [][NextWorkspace]_vars

\* the session, the project selection and logout next to updateIssue and the
\* realtime channel
NextChannel ==
  \/ handleSession /\ done' = NoDone
  \/ logout
  \/ \E s \in Slot : ServeProjects(s) /\ done' = NoDone
  \/ \E s \in Slot : loadWorkspaceData(s) /\ done' = NoDone
  \/ \E id \in ProjectIds : setActiveProject(id) /\ done' = NoDone
  \/ \E s \in Slot : ServeFetch(s) /\ done' = NoDone
  \/ \E s \in Slot : fetchProjectData(s)
  \/ \E id \in IssueIds, u \in UpdateInputs : updateIssue(id, u) /\ done' = NoDone
  \/ \E s \in Slot : ServeUpdate(s) /\ done' = NoDone
  \/ \E s \in Slot : updateIssueDone(s)
  \/ Deliver

SpecChannel == Init /\ [][NextChannel]_vars

\* the realtime channel next to the handlers that change rows and to another
\* client that deletes sprints, from the loaded store
NextEvents ==
  \/ \E id \in IssueIds, u \in UpdateInputs : updateIssue(id, u) /\ done' = NoDone
  \/ \E s \in Slot : ServeUpdate(s) /\ done' = NoDone
  \/ \E s \in Slot : updateIssueDone(s)
  \/ \E id \in IssueIds : deleteIssue(id) /\ done' = NoDone
  \/ \E s \in Slot : ServeDelete(s) /\ done' = NoDone
  \/ \E s \in Slot : deleteIssueDone(s)
  \/ \E id \in SprintIds, a \in {"BACKLOG", "NEXT_SPRINT"} :
       completeSprint(id, a) /\ done' = NoDone
  \/ \E s \in Slot : ServeSprintUpdate(s) /\ done' = NoDone
  \/ \E s \in Slot : ServeMove(s) /\ done' = NoDone
  \/ \E s \in Slot : completeSprintStep(s)
  \/ \E id \in SprintIds : RemoteDeleteSprint(id) /\ done' = NoDone
  \/ Deliver

SpecEvents == InitReady /\ [][NextEvents]_vars

\* the three issue handlers next to the realtime channel, from the loaded store
NextIssues ==
  \/ \E n \in NewIssueInputs : addIssue(n)
  \/ \E s \in Slot : ServeCreate(s) /\ done' = NoDone
  \/ \E s \in Slot : addIssueDone(s)
  \/ \E id \in IssueIds, u \in UpdateInputs : updateIssue(id, u) /\ done' = NoDone
  \/ \E s \in Slot : ServeUpdate(s) /\ done' = NoDone
  \/ \E s \in Slot : updateIssueDone(s)
  \/ \E id \in IssueIds : deleteIssue(id) /\ done' = NoDone
  \/ \E s \in Slot : ServeDelete(s) /\ done' = NoDone
  \/ \E s \in Slot : deleteIssueDone(s)
  \/ Deliver
  \/ Tick /\ done' = NoDone

SpecIssues == InitReady /\ [][NextIssues]_vars

\* the id addIssue is about to generate is held by no issue of the store or of
\* the remote table, by no addIssue in flight and by no event on its way
DistinctId ==
  /\ ~SomeId(allIssues, ReadableId)
  /\ ~SomeId(dbIssues, ReadableId)
  /\ \A s \in Slot : ops[s].kind = "add" => ops[s].id # ReadableId
  /\ \A k \in DOMAIN rt :
       rt[k].table = "issues" =>
         (IF rt[k].type = "DELETE" THEN rt[k].old.id ELSE rt[k].new.id)
           # ReadableId

\* the issue handlers, the project fetches and the realtime channel, with
\* addIssue called only when the id it generates is a new one; updateIssue
\* moves issues to DONE and the clock is read between requests
NextDistinct ==
  \/ \E n \in NewIssueInputs : DistinctId /\ addIssue(n)
  \/ \E s \in Slot : ServeCreate(s) /\ done' = NoDone
  \/ \E s \in Slot : addIssueDone(s)
  \/ \E id \in IssueIds :
       updateIssue(id, [field |-> "status", value |-> DONE]) /\ done' = NoDone
  \/ \E s \in Slot : ServeUpdate(s) /\ done' = NoDone
  \/ \E s \in Slot : updateIssueDone(s)
  \/ \E id \in IssueIds : deleteIssue(id) /\ done' = NoDone
  \/ \E s \in Slot : ServeDelete(s) /\ done' = NoDone
  \/ \E s \in Slot : deleteIssueDone(s)
  \/ \E id \in ProjectIds : setActiveProject(id) /\ done' = NoDone
  \/ \E s \in Slot : ServeFetch(s) /\ done' = NoDone
  \/ \E s \in Slot : fetchProjectData(s)
  \/ Deliver
  \/ (\A s \in Slot : ops[s] = Idle) /\ Tick /\ done' = NoDone

SpecDistinct == InitReady /\ [][NextDistinct]_vars

\* the provider right after mounting, with the remote service configured or
\* not
InitSession ==
  /\ currentUser = NoUser
  /\ InitStore
  /\ auth \in {Mounting, [Mounting EXCEPT !.configured = FALSE]}
  /\ ret = NoCall

\* init, login, the session-change listener and logout next to the workspace
\* menu and the loadWorkspaceData effect
NextSession ==
  \/ initUnconfigured
  \/ \E o \in {"throws", "none", "session"} : getSession(o)
  \/ \E p \in BOOLEAN : login(p)
  \/ \E s \in Slot : ServeSignIn(s)
  \/ \E s \in Slot : loginDone(s)
  \/ onAuthStateChange("TOKEN_REFRESHED")
  \/ \E s \in Slot : ServeSession(s)
  \/ \E s \in Slot : handleSessionDone(s)
  \/ logout
  \/ \E id \in WorkspaceIds : setActiveWorkspace(id) /\ done' = NoDone
  \/ \E s \in Slot : ServeProjects(s) /\ done' = NoDone
  \/ \E s \in Slot : loadWorkspaceData(s) /\ done' = NoDone

SpecSession == InitSession /\ [][NextSession]_vars

\* the store of a signed-in user of the given role with the given workspaces
\* and projects loaded and selected
Signed(role, wss, wid, projs, pid) ==
  /\ currentUser = [TheUser EXCEPT !.role = role]
  /\ workspaces = wss
  /\ activeWorkspaceId = wid
  /\ allProjects = projs
  /\ activeProjectId = pid
  /\ allIssues = ByProject(SeedIssues, pid)
  /\ allSprints = ByProject(SeedSprints, pid)
  /\ allEpics = ByProject(SeedEpics, pid)
  /\ allTeams = ByWorkspace(SeedTeams, wid)
  /\ channel = IF pid = NoId THEN {} ELSE {pid}
  /\ rt = << >>
  /\ toasts = << >>
  /\ dbIssues = SeedIssues
  /\ dbSprints = SeedSprints
  /\ dbTeams = SeedTeams
  /\ dbWorkspaces = SeedWorkspaces
  /\ dbProjects = SeedProjects
  /\ selectedIssue = NoIssue
  /\ isLoading = FALSE
  /\ auth = SignedIn
  /\ ops = [s \in Slot |-> Idle]
  /\ now = 0
  /\ calls = 0
  /\ permAsked = "CREATE_PROJECT"
  /\ permResult = [done |-> FALSE, value |-> FALSE]
  /\ ret = NoCall
  /\ done = NoDone

\* workspace w1 with its projects, p1 selected
InWorkspace(role) ==
  Signed(role, SeedWorkspaces, "w1", ByWorkspace(SeedProjects, "w1"), "p1")

\* workspace w3, which has no project
InEmptyWorkspace(role) == Signed(role, SeedWorkspaces, "w3", << >>, NoId)

\* a user who may read no workspace row, right after handleSession
Fresh(role) == Signed(role, << >>, NoId, << >>, NoId)

\* a user who may read no workspace row, signed in after a logout that the
\* answer of a loadWorkspaceData call for w1 came after
Stranded(role) ==
  Signed(role, << >>, NoId, ByWorkspace(SeedProjects, "w1"), "p1")

\* createProject next to the loading effects, for a Founder and a Developer:
\* in a workspace with projects, in one without, and with no workspace
NextProjects ==
  \/ createProject("N")
  \/ \E s \in Slot : ServeProfile(s)
  \/ \E s \in Slot : createProjectVerified(s)
  \/ \E s \in Slot : ServeInsertWorkspace(s)
  \/ \E s \in Slot : createProjectWorkspace(s)
  \/ \E s \in Slot : ServeCreateProject(s)
  \/ \E s \in Slot : createProjectDone(s)
  \/ \E s \in Slot : ServeProjects(s) /\ done' = NoDone
  \/ \E s \in Slot : loadWorkspaceData(s) /\ done' = NoDone
  \/ \E s \in Slot : ServeFetch(s) /\ done' = NoDone
  \/ \E s \in Slot : fetchProjectData(s)
  \/ Tick /\ done' = NoDone

\* the provider right after mounting, or the store of a Founder in workspace
\* w1, or of a Developer who may read no workspace row
InitInvite ==
  \/ currentUser = NoUser /\ InitStore /\ auth = Mounting /\ ret = NoCall
  \/ InWorkspace("Founder")
  \/ Fresh("Developer")

\* signup, createWorkspace, createProject and inviteUser next to the loading
\* effects
NextInvite ==
  \/ getSession("none")
  \/ \E role \in ProfileRoles, p \in BOOLEAN : signup(role, p)
  \/ \E s \in Slot : ServeSignUp(s)
  \/ \E s \in Slot : signupDone(s)
  \/ createWorkspace
  \/ \E s \in Slot : ServeCreateWorkspace(s)
  \/ \E s \in Slot : createWorkspaceDone(s)
  \/ createProject("N")
  \/ \E s \in Slot : ServeProfile(s)
  \/ \E s \in Slot : createProjectVerified(s)
  \/ \E s \in Slot : ServeInsertWorkspace(s)
  \/ \E s \in Slot : createProjectWorkspace(s)
  \/ \E s \in Slot : ServeCreateProject(s)
  \/ \E s \in Slot : createProjectDone(s)
  \/ \E u \in Users \cup {NoId} : inviteUser(u)
  \/ \E s \in Slot : ServeUpdateWorkspace(s)
  \/ \E s \in Slot : inviteUserDone(s)
  \/ \E s \in Slot : ServeProjects(s) /\ done' = NoDone
  \/ \E s \in Slot : loadWorkspaceData(s) /\ done' = NoDone

SpecInvite == InitInvite /\ [][NextInvite]_vars

InitBootstrap ==
  \E role \in ProfileRoles :
    InWorkspace(role) \/ InEmptyWorkspace(role) \/ Fresh(role)

\* createProject from the stores a session leaves behind
SpecBootstrap == InitBootstrap /\ [][NextProjects]_vars

InitProjects ==
  \E role \in ProfileRoles :
    InWorkspace(role) \/ InEmptyWorkspace(role) \/ Fresh(role) \/ Stranded(role)

\* createProject from the same stores and from the one that a late answer of
\* loadWorkspaceData leaves behind
SpecProjects == InitProjects /\ [][NextProjects]_vars

\* the comment box next to the other updates of an issue and the realtime
\* channel, from the loaded store
NextComments ==
  \/ \E id \in IssueIds, text \in CommentTexts :
       addComment(id, text, currentUser.id) /\ done' = NoDone
  \/ \E id \in IssueIds, u \in UpdateInputs : updateIssue(id, u) /\ done' = NoDone
  \/ \E s \in Slot : ServeUpdate(s) /\ done' = NoDone
  \/ \E s \in Slot : updateIssueDone(s)
  \/ Deliver
  \/ Tick /\ done' = NoDone

SpecComments == InitReady /\ [][NextComments]_vars

\* the notices of the update and delete handlers, their timers and their close
\* buttons
NextToasts ==
  \/ \E id \in IssueIds, u \in UpdateInputs : updateIssue(id, u) /\ done' = NoDone
  \/ \E s \in Slot : ServeUpdate(s) /\ done' = NoDone
  \/ \E s \in Slot : updateIssueDone(s)
  \/ \E id \in IssueIds : deleteIssue(id) /\ done' = NoDone
  \/ \E s \in Slot : ServeDelete(s) /\ done' = NoDone
  \/ \E s \in Slot : deleteIssueDone(s)
  \/ \E k \in DOMAIN toasts : expireToast(k)
  \/ \E k \in DOMAIN toasts : removeToast(k)
  \/ Tick /\ done' = NoDone

SpecToasts == InitReady /\ [][NextToasts]_vars

\* the issue modal of the board: opened, closed, its subtask handlers, the
\* remote updates they start and the realtime channel
NextModal ==
  \/ \E id \in IssueIds : openIssue(id) /\ done' = NoDone
  \/ closeIssue /\ done' = NoDone
  \/ \E title \in SubtaskTitles : addSubtask(title)
  \/ \E k \in DOMAIN selectedIssue.subtasks :
       toggleSubtask(selectedIssue.subtasks[k].id,
                     ~selectedIssue.subtasks[k].completed)
  \/ \E k \in DOMAIN selectedIssue.subtasks :
       deleteSubtask(selectedIssue.subtasks[k].id)
  \/ \E s \in Slot : ServeUpdate(s) /\ done' = NoDone
  \/ \E s \in Slot : updateIssueDone(s)
  \/ Deliver
  \/ Tick /\ done' = NoDone

SpecModal == InitReady /\ [][NextModal]_vars

\* the team handlers of the store, from the loaded workspace
NextTeams ==
  \/ \E m \in MemberChoices : createTeam("n", m) /\ done' = NoDone
  \/ \E s \in Slot : ServeCreateTeam(s) /\ done' = NoDone
  \/ \E s \in Slot : createTeamDone(s)
  \/ \E k \in DOMAIN allTeams, u \in Users : addMemberToTeam(allTeams[k].id, u)
  \/ \E k \in DOMAIN allTeams, u \in Users :
       removeMemberFromTeam(allTeams[k].id, u)
  \/ \E s \in Slot : ServeUpdateTeam(s) /\ done' = NoDone
  \/ \E s \in Slot : addMemberToTeamDone(s)
  \/ \E s \in Slot : removeMemberFromTeamDone(s)
  \/ Tick /\ done' = NoDone

SpecTeams == InitReady /\ [][NextTeams]_vars

\* the two member handlers of the store on the teams of the loaded workspace
NextMembers ==
  \/ \E k \in DOMAIN allTeams, u \in Users : addMemberToTeam(allTeams[k].id, u)
  \/ \E k \in DOMAIN allTeams, u \in Users :
       removeMemberFromTeam(allTeams[k].id, u)
  \/ \E s \in Slot : ServeUpdateTeam(s) /\ done' = NoDone
  \/ \E s \in Slot : addMemberToTeamDone(s)
  \/ \E s \in Slot : removeMemberFromTeamDone(s)

SpecMembers == InitReady /\ [][NextMembers]_vars

\* the same with the continuations of the second copy of the store
NextMembersSilent ==
  \/ \E k \in DOMAIN allTeams, u \in Users : addMemberToTeam(allTeams[k].id, u)
  \/ \E k \in DOMAIN allTeams, u \in Users :
       removeMemberFromTeam(allTeams[k].id, u)
  \/ \E s \in Slot : ServeUpdateTeam(s) /\ done' = NoDone
  \/ \E s \in Slot : addMemberToTeamDoneSilent(s)
  \/ \E s \in Slot : removeMemberFromTeamDoneSilent(s)

SpecMembersSilent == InitReady /\ [][NextMembersSilent]_vars

\* the handlers that create rows next to the loading of the store and the
\* realtime channel; the clock advances between handler calls
NextRealtime ==
  \/ handleSession /\ done' = NoDone
  \/ \E s \in Slot : ServeProjects(s) /\ done' = NoDone
  \/ \E s \in Slot : loadWorkspaceData(s) /\ done' = NoDone
  \/ \E id \in ProjectIds : setActiveProject(id) /\ done' = NoDone
  \/ \E s \in Slot : ServeFetch(s) /\ done' = NoDone
  \/ \E s \in Slot : fetchProjectData(s)
  \/ \E n \in NewIssueInputs : addIssue(n)
  \/ \E s \in Slot : ServeCreate(s) /\ done' = NoDone
  \/ \E s \in Slot : addIssueDone(s)
  \/ createSprint /\ done' = NoDone
  \/ \E s \in Slot : ServeCreateSprint(s) /\ done' = NoDone
  \/ \E s \in Slot : createSprintDone(s)
  \/ Deliver
  \/ (\A s \in Slot : ops[s] = Idle) /\ Tick /\ done' = NoDone

SpecRealtime == Init /\ [][NextRealtime]_vars

\* completeSprint next to the realtime channel, from the loaded store, within
\* one reading of the clock
NextSprint ==
  \/ \E id \in SprintIds, a \in {"BACKLOG", "NEXT_SPRINT"} :
       completeSprint(id, a) /\ done' = NoDone
  \/ \E s \in Slot : ServeSprintUpdate(s) /\ done' = NoDone
  \/ \E s \in Slot : ServeMove(s) /\ done' = NoDone
  \/ \E s \in Slot : completeSprintStep(s)
  \/ Deliver

SpecSprint == InitReady /\ [][NextSprint]_vars

\* startSprint and completeSprint next to the realtime channel, from the loaded
\* store
NextLifecycle ==
  \/ \E id \in SprintIds : startSprint(id) /\ done' = NoDone
  \/ \E s \in Slot : ServeStartSprint(s) /\ done' = NoDone
  \/ \E s \in Slot : startSprintDone(s)
  \/ \E id \in SprintIds, a \in {"BACKLOG", "NEXT_SPRINT"} :
       completeSprint(id, a) /\ done' = NoDone
  \/ \E s \in Slot : ServeSprintUpdate(s) /\ done' = NoDone
  \/ \E s \in Slot : ServeMove(s) /\ done' = NoDone
  \/ \E s \in Slot : completeSprintStep(s)
  \/ Deliver

SpecLifecycle == InitReady /\ [][NextLifecycle]_vars

\* completeSprint after addIssue filled the sprint, from the loaded store,
\* within one reading of the clock
NextSpill ==
  \/ \E n \in NewIssueInputs : addIssue(n)
  \/ \E s \in Slot : ServeCreate(s) /\ done' = NoDone
  \/ \E s \in Slot : addIssueDone(s)
  \/ \E id \in SprintIds, a \in {"BACKLOG", "NEXT_SPRINT"} :
       completeSprint(id, a) /\ done' = NoDone
  \/ \E s \in Slot : ServeSprintUpdate(s) /\ done' = NoDone
  \/ \E s \in Slot : ServeMove(s) /\ done' = NoDone
  \/ \E s \in Slot : completeSprintStep(s)
  \/ Deliver

SpecSpill == InitReady /\ [][NextSpill]_vars

\* the addIssue call in flight that the create-issue form made with the given
\* sprint chosen, in the loaded store at clock 0
TwinOp(chosen, obj, pre) ==
  LET newIssue == [title |-> "t", status |-> "TODO",
                   sprintId |-> FormSprintId(chosen), chosen |-> chosen]
      project == SeedProjects[1]
      id == << project.key, 0 >>
  IN  [kind |-> "add", stage |-> "sent", id |-> id,
       issue |-> [id |-> id, projectId |-> project.id, title |-> newIssue.title,
                  status |-> newIssue.status, sprintId |-> newIssue.sprintId,
                  comments |-> << >>, subtasks |-> << >>, createdAt |-> 0,
                  updatedAt |-> 0, obj |-> obj],
       payload |-> [id |-> id, projectId |-> project.id,
                    title |-> newIssue.title, status |-> newIssue.status,
                    sprintId |-> OrNull(newIssue.sprintId)],
       newIssue |-> newIssue,
       activeProject |-> project,
       pre |-> pre]

\* the loaded store after the create-issue form was sent twice within one
\* millisecond, for the backlog and for sprint s1, with both creates in flight
InitTwins ==
  /\ Loaded
  /\ LET first == TwinOp(NoId, 1, ByProject(SeedIssues, "p1"))
         second == TwinOp("s1", 2,
                          Append(ByProject(SeedIssues, "p1"), first.issue))
     IN  /\ allIssues = Append(second.pre, second.issue)
         /\ ops = [s \in Slot |-> IF s = 1 THEN first
                                   ELSE IF s = 2 THEN second ELSE Idle]
  /\ toasts = << [id |-> 0, message |-> "Issue created", type |-> "success"],
                 [id |-> 0, message |-> "Issue created", type |-> "success"] >>
  /\ done = NoDone

\* completeSprint while the two creates wait for their answer
NextTwins ==
  \/ \E id \in SprintIds, a \in {"BACKLOG", "NEXT_SPRINT"} :
       completeSprint(id, a) /\ done' = NoDone
  \/ \E s \in Slot : ServeSprintUpdate(s) /\ done' = NoDone
  \/ \E s \in Slot : ServeMove(s) /\ done' = NoDone
  \/ \E s \in Slot : completeSprintStep(s)
  \/ Deliver

SpecTwins == InitTwins /\ [][NextTwins]_vars


\* ------------------------------------------------------------ claims
\* the entries of seq with the given id
WithId(seq, id) == SelectSeq(seq, LAMBDA x : x.id = id)

LastToastIs(type) == toasts # << >> /\ toasts[Len(toasts)].type = type

OptimisticOf(op) ==
  CASE op.kind = "add" -> Append(op.pre, op.issue)
    [] op.kind = "update" -> MapById(op.pre, op.id, op.new)
    [] op.kind = "delete" -> FilterOutId(op.previousIssues, op.id)

BeforeOf(op) == IF op.kind = "delete" THEN op.previousIssues ELSE op.pre

\* C2: when the remote call of addIssue, updateIssue or deleteIssue fails and
\* nothing else touched the issue collection since the optimistic write, the
\* rollback leaves the collection the mutation was called on, and an error
\* toast is shown
C2_RollbackRestores ==
  (/\ done.op.kind \in {"add", "update", "delete"}
   /\ done.op.stage = "fail"
   /\ done.issues = OptimisticOf(done.op)) =>
    /\ allIssues = BeforeOf(done.op)
    /\ LastToastIs("error")

\* C3: a realtime INSERT whose id the local collection already holds leaves
\* that collection as it was, for issues and for sprints
C3_InsertDeduplicated ==
  (done.op.kind = "event" /\ done.op.ev.type = "INSERT") =>
    /\ (done.op.ev.table = "issues" /\ SomeId(done.issues, done.op.ev.new.id)) =>
         allIssues = done.issues
    /\ (done.op.ev.table = "sprints" /\ SomeId(done.sprints, done.op.ev.new.id)) =>
         allSprints = done.sprints

C3_Witness ==
  /\ done.op.kind = "event" /\ done.op.ev.type = "INSERT"
  /\ done.op.ev.table = "issues"
  /\ SomeId(done.issues, done.op.ev.new.id)

C3_WitnessSprints ==
  /\ done.op.kind = "event" /\ done.op.ev.type = "INSERT"
  /\ done.op.ev.table = "sprints"
  /\ SomeId(done.sprints, done.op.ev.new.id)

\* a completeSprint call that ran to its last line with every remote call
\* answered and the issue collection touched by nothing else
CompletedAlone(op) ==
  /\ op.kind = "complete"
  /\ ~(op.phase = "sprint" /\ op.stage = "fail")
  /\ op.failed = {}
  /\ op.solo

\* every issue the call found in sprint s and not DONE is in the backlog now,
\* and every other issue is the one the call found
SpilledToBacklog(op) ==
  /\ Len(allIssues) = Len(op.issues)
  /\ \A k \in DOMAIN op.issues :
       IF op.issues[k].sprintId = op.sprintId /\ op.issues[k].status # DONE
         THEN /\ allIssues[k].id = op.issues[k].id
              /\ allIssues[k].sprintId = Null
         ELSE allIssues[k] = op.issues[k]

\* C4: completeSprint(s, BACKLOG) on an ACTIVE sprint, with every remote call
\* succeeding and nothing interleaved, leaves the N-K issues that were not DONE
\* in the backlog, the K DONE issues in s, and s COMPLETED in the store's
\* sprint collection
C4_BacklogSpillover ==
  (/\ CompletedAlone(done.op) /\ done.op.spilloverAction = "BACKLOG"
   /\ done.op.sprint.status = "ACTIVE") =>
    /\ SpilledToBacklog(done.op)
    /\ \A k \in DOMAIN allSprints :
         allSprints[k].id = done.op.sprintId => allSprints[k].status = "COMPLETED"

\* C5: completeSprint(s, NEXT_SPRINT) with no PLANNED sprint of the selected
\* project ends as completeSprint(s, BACKLOG) does: every issue of s that is not
\* DONE is in the backlog, and the call runs to its closing toast
C5_NextSprintFallback ==
  (/\ CompletedAlone(done.op)
   /\ done.op.spilloverAction = "NEXT_SPRINT"
   /\ ~\E k \in DOMAIN done.op.allSprints :
         /\ done.op.allSprints[k].projectId = done.op.activeProjectId
         /\ done.op.allSprints[k].status = "PLANNED") =>
    /\ SpilledToBacklog(done.op)
    /\ LastToastIs("success")
    /\ toasts[Len(toasts)].message = "Sprint completed!"

C5_Witness ==
  /\ CompletedAlone(done.op)
  /\ done.op.spilloverAction = "NEXT_SPRINT"
  /\ ~\E k \in DOMAIN done.op.allSprints :
        /\ done.op.allSprints[k].projectId = done.op.activeProjectId
        /\ done.op.allSprints[k].status = "PLANNED"
  /\ done.op.k > 0
  /\ \E k \in DOMAIN allIssues :
       allIssues[k].sprintId = Null /\ done.op.issues[k].sprintId = done.op.sprintId

\* C6: completeSprint called on a sprint that is already COMPLETED, after the
\* first call has returned, moves no issue
C6_SecondCompleteMovesNothing ==
  \A s \in Slot :
    (/\ ops[s].kind = "complete" /\ ops[s].sprint.status = "COMPLETED"
     /\ \A t \in Slot \ {s} : ops[t].kind # "complete") =>
      ops[s].phase # "move"

\* C7: after addIssue's create succeeded, with the issue held once when the
\* answer arrives, the collection holds the created issue exactly once, as the
\* object the server returned, and no temporary entry; SpecAdd interleaves the
\* create with realtime events and updateIssue calls only
C7_ReconciledOnce ==
  (/\ done.op.kind = "add" /\ done.op.stage = "ok"
   /\ Len(WithId(done.issues, done.op.id)) = 1) =>
    /\ WithId(allIssues, done.op.created.id) = << done.op.created >>
    /\ \A k \in DOMAIN allIssues : allIssues[k].obj # done.op.issue.obj

\* C8: a fetch requested for a project that is no longer the selected one is
\* not stored
C8_StaleFetchDiscarded ==
  (/\ done.op.kind = "fetch" /\ done.op.stage = "ok"
   /\ done.op.pid # activeProjectId) =>
    /\ allIssues = done.issues
    /\ allSprints = done.sprints

\* C9: two addIssue calls in one project that read the same clock value give
\* their issues different ids
C9_DistinctIds ==
  \A s, t \in Slot :
    (/\ s # t
     /\ ops[s].kind = "add" /\ ops[t].kind = "add"
     /\ ops[s].issue.projectId = ops[t].issue.projectId
     /\ ops[s].issue.createdAt = ops[t].issue.createdAt) =>
      ops[s].id # ops[t].id

\* the fields of an issue but its id and the identity of the object
Fields(i) ==
  [projectId |-> i.projectId, title |-> i.title, status |-> i.status,
   sprintId |-> i.sprintId, comments |-> i.comments, subtasks |-> i.subtasks,
   createdAt |-> i.createdAt, updatedAt |-> i.updatedAt]

\* C10: the issue read back by its id equals what addIssue built, right after
\* the call and after the create was reconciled, but for the id
C10_RoundTrip ==
  /\ \A s \in Slot :
       (/\ ops[s].kind = "add"
        /\ ~SomeId(ops[s].pre, ops[s].id)
        /\ allIssues = Append(ops[s].pre, ops[s].issue)) =>
         allIssues[FindIx(allIssues, ops[s].id)] = ops[s].issue
  /\ (/\ done.op.kind = "add" /\ done.op.stage = "ok"
      /\ WithId(done.issues, done.op.id) = << done.op.issue >>) =>
       /\ SomeId(allIssues, done.op.created.id)
       /\ Fields(allIssues[FindIx(allIssues, done.op.created.id)])
            = Fields(done.op.issue)

\* C11: an issue addIssue creates has the id '<key>-<suffix>' of the selected
\* project and that project's id; sent by the create-issue form with no sprint
\* chosen it is TODO and in the backlog; with no project selected the call
\* changes nothing
C11_AddIssueShape ==
  /\ \A s \in Slot :
       ops[s].kind = "add" =>
         /\ ops[s].issue.id[1] = ops[s].activeProject.key
         /\ ops[s].issue.id[2] \in 0..(SuffixMod - 1)
         /\ ops[s].issue.projectId = ops[s].activeProject.id
         /\ ops[s].issue.status = "TODO"
         /\ ops[s].newIssue.chosen = NoId => ops[s].issue.sprintId = Null
  /\ (done.op.kind = "add" /\ done.op.stage = "return") =>
       /\ allIssues = done.issues
       /\ allSprints = done.sprints
       /\ toasts = done.op.toasts
       /\ ops = done.op.ops
       /\ dbIssues = done.op.dbIssues

C11_Witness ==
  \E s \in Slot :
    /\ ops[s].kind = "add" /\ ops[s].stage = "sent"
    /\ ops[s].newIssue.chosen = NoId
    /\ ops[s].activeProject.id = activeProjectId
    /\ SomeId(allIssues, << activeProject.key, now % SuffixMod >>)

C11_WitnessNoProject ==
  done.op.kind = "add" /\ done.op.stage = "return" /\ ~HasActiveProject

\* C12: when a create, update or delete of an issue or a sprint issues its
\* remote call, the change is already in the in-memory collection
C12_OptimisticFirst ==
  [][\A s \in Slot :
       (ops[s] = Idle /\ ops'[s] # Idle) =>
         CASE ops'[s].kind = "add" -> SomeId(allIssues', ops'[s].id)
           [] ops'[s].kind = "update" ->
                allIssues'[FindIx(allIssues', ops'[s].id)] = ops'[s].new
           [] ops'[s].kind = "delete" -> ~SomeId(allIssues', ops'[s].id)
           [] ops'[s].kind = "createSprint" ->
                SomeId(allSprints', ops'[s].sprint.id)
           [] OTHER -> TRUE]_vars

\* C13: a store action whose remote call failed ends with an error toast as
\* its last word, and for the sprint actions with the sprint collection it
\* found
C13_FailuresCaught ==
  (/\ done.op.kind \in {"add", "update", "delete", "createSprint", "complete"}
   /\ done.op.stage = "fail"
   /\ done.op.kind = "complete" => done.op.phase = "sprint") =>
    /\ LastToastIs("error")
    /\ done.op.kind \in {"createSprint", "complete"} => allSprints = done.sprints

\* the toasts of ts with the given message
ToastsSaying(ts, message) == SelectSeq(ts, LAMBDA t : t.message = message)

\* C14: when completeSprint ran to its end with nothing else touching the
\* issues, every issue whose remote move failed is the issue the call found,
\* every other issue it had to move is at the destination, and each failure
\* has its error toast
C14_PartialFailureSurfaced ==
  (/\ done.op.kind = "complete" /\ done.op.phase = "move" /\ done.op.solo) =>
    LET op == done.op
        dest == NextSprintId(op.allSprints, op.activeProjectId, op.spilloverAction)
    IN  /\ Len(allIssues) = Len(op.issues)
        /\ \A k \in DOMAIN op.issues :
             IF op.issues[k].sprintId = op.sprintId /\ op.issues[k].status # DONE
               THEN IF op.issues[k].id \in op.failed
                      THEN allIssues[k] = op.issues[k]
                      ELSE /\ allIssues[k].id = op.issues[k].id
                           /\ allIssues[k].sprintId = dest
               ELSE allIssues[k] = op.issues[k]
        /\ Len(ToastsSaying(toasts, "Failed to update issue"))
             >= Cardinality(op.failed)

C14_Witness ==
  /\ done.op.kind = "complete" /\ done.op.phase = "move" /\ done.op.solo
  /\ done.op.k = 2
  /\ Cardinality(done.op.failed) = 1
  /\ \E k \in DOMAIN allIssues :
       /\ allIssues[k].sprintId # done.op.sprintId
       /\ done.op.issues[k].sprintId = done.op.sprintId

\* the issues of seq as values, the identity of the objects aside
Rows(seq) == {[seq[k] EXCEPT !.obj = 0] : k \in DOMAIN seq}

\* C15: with no handler in flight and no realtime event under way the issue
\* collection holds the rows of the selected project in the remote table
C15_ConvergesToRemote ==
  (/\ \A s \in Slot : ops[s] = Idle
   /\ rt = << >>
   /\ channel = {activeProjectId} /\ HasActiveProject) =>
    Rows(allIssues) = Rows(ByProject(dbIssues, activeProjectId))

C16_WitnessLogout ==
  /\ done.op.kind = "logout" /\ done.op.channel # {}
  /\ channel = {} /\ rt = << >>
  /\ \E s \in Slot : ops[s].kind = "update" /\ ops[s].stage = "ok"

\* every entry of before with the id of row replaced by row, the others kept
ReplacedById(before, after, row) ==
  /\ Len(after) = Len(before)
  /\ \A k \in DOMAIN before :
       after[k] = IF before[k].id = row.id THEN row ELSE before[k]

\* the entries of before with another id than id, and nothing else
RemovedById(before, after, id) ==
  /\ ~SomeId(after, id)
  /\ after = SelectSeq(before, LAMBDA e : e.id # id)

\* C17: an UPDATE event leaves the payload in the place of the issue or sprint
\* with its id, a DELETE event leaves none with its id, and the other entries
\* stay as they were
C17_AppliedById ==
  (done.op.kind = "event" /\ done.op.ev.type \in {"UPDATE", "DELETE"}) =>
    LET ev == done.op.ev
        before == IF ev.table = "issues" THEN done.issues ELSE done.sprints
        after == IF ev.table = "issues" THEN allIssues ELSE allSprints
    IN  IF ev.type = "UPDATE"
          THEN ReplacedById(before, after, ev.new)
          ELSE RemovedById(before, after, ev.old.id)

\* C18: with the remote data service not configured a list function returns
\* an empty collection and a write function throws 'Supabase not configured'
C18_UnconfiguredFailsFast ==
  (ret.fn \in ApiFns /\ ~ret.configured) =>
    IF ret.fn \in ListFns
      THEN ret.outcome = Returns("[]")
      ELSE ret.outcome = Throws("Supabase not configured")

\* C19: a function of the data access layer whose remote call answered with an
\* error throws an Error with a message
C19_RemoteErrorRaised ==
  (ret.fn \in ApiFns /\ ret.configured /\ ~ret.error.null) =>
    ret.outcome.threw /\ ret.outcome.message # ""

\* C20: suggestSubtasks throws nothing and returns a list, the empty one when
\* the generation call gave no response or one that does not parse once the
\* fence markers are removed
C20_AlwaysAList ==
  ret.fn = "suggestSubtasks" =>
    /\ ~ret.outcome.threw
    /\ ret.outcome.value.type = "array"
    /\ (\/ ~ret.ai
        \/ ret.response.kind = "error"
        \/ /\ ret.response.kind = "text"
           /\ ~JSONparse(Replace(Replace(ret.response.text, "fence-json"),
                                 "fence")).ok
           /\ Trim(ret.response.text) # << >>) =>
         ret.outcome.value = EmptyArray

\* the PLANNED sprints, in collection order, of the project of sprint
PlannedOfProject(sprints, sprint) ==
  SelectSeq(sprints, LAMBDA x : x.projectId = sprint.projectId
                                  /\ x.status = "PLANNED")

\* C21: an issue that completeSprint(s, NEXT_SPRINT) moves goes to the first
\* PLANNED sprint, in collection order, of the project of s (to the backlog when
\* there is none), and never to s itself
C21_FirstPlannedDestination ==
  \A t \in Slot :
    (/\ ops[t].kind = "complete" /\ ops[t].phase = "move"
     /\ ops[t].spilloverAction = "NEXT_SPRINT") =>
      LET planned == PlannedOfProject(ops[t].allSprints, ops[t].sprint)
      IN  /\ ops[t].new.sprintId =
               (IF planned # << >> THEN planned[1].id ELSE Null)
          /\ ops[t].new.sprintId # ops[t].sprintId

\* issue b is issue a with, at most, another sprint and another update time
MovedOnly(a, b) ==
  [b EXCEPT !.sprintId = a.sprintId, !.updatedAt = a.updatedAt, !.obj = a.obj] = a

\* C22: a step of completeSprint(s, policy) that moves an issue leaves the
\* sprint of every issue that is DONE or not in s as it is, the issue whose
\* failed move the step rolls back aside, and changes nothing but the sprint
\* and the update time of the issue it moves
C22_MovesOnlyOpenIssuesOfSprint ==
  [][\A t \in Slot :
       (/\ ops[t].kind = "complete" /\ ops'[t].kind = "complete"
        /\ ops'[t].phase = "move" /\ ops'[t].k # ops[t].k) =>
         /\ Len(allIssues') = Len(allIssues)
         /\ \A k \in DOMAIN allIssues :
              LET rolledBack == /\ ops[t].phase = "move" /\ ops[t].stage = "fail"
                                /\ allIssues[k].id = ops[t].new.id
              IN  /\ (/\ ~rolledBack
                      /\ \/ allIssues[k].status = DONE
                         \/ allIssues[k].sprintId # ops[t].sprintId) =>
                       allIssues'[k].sprintId = allIssues[k].sprintId
                  /\ ~rolledBack => MovedOnly(allIssues[k], allIssues'[k])
  ]_vars

\* C23: the rollback of a failed deleteIssue puts the removed issue back and
\* leaves every other issue as the rollback found it
C23_RollbackKeepsNewerState ==
  (done.op.kind = "delete" /\ done.op.stage = "fail") =>
    /\ SomeId(allIssues, done.op.id)
    /\ FilterOutId(allIssues, done.op.id) = FilterOutId(done.issues, done.op.id)

\* the ids of the projects of workspace wid in the remote table
ProjectsOf(wid) ==
  {SeedProjects[k].id : k \in {j \in DOMAIN SeedProjects :
                                  SeedProjects[j].workspaceId = wid}}

\* C24: once the projects of the active workspace W are loaded and no load or
\* fetch is in flight, the selected project is none or one of W, and every
\* issue, sprint and epic in the store belongs to a project of W
C24_WorkspaceSwitchClears ==
  (/\ isAuthenticated /\ activeWorkspaceId # NoId
   /\ \A s \in Slot : ops[s] = Idle
   /\ allProjects = ByWorkspace(SeedProjects, activeWorkspaceId)) =>
    /\ activeProjectId \in {NoId} \cup ProjectsOf(activeWorkspaceId)
    /\ \A k \in DOMAIN allIssues :
         allIssues[k].projectId \in ProjectsOf(activeWorkspaceId)
    /\ \A k \in DOMAIN allSprints :
         allSprints[k].projectId \in ProjectsOf(activeWorkspaceId)
    /\ \A k \in DOMAIN allEpics :
         allEpics[k].projectId \in ProjectsOf(activeWorkspaceId)

\* the place of a status in PLANNED, ACTIVE, COMPLETED
Rank(status) ==
  CASE status = "PLANNED" -> 1
    [] status = "ACTIVE" -> 2
    [] status = "COMPLETED" -> 3

\* no sprint held before and after a step has a status of lower rank after it
ForwardOnly(before, after) ==
  \A j \in DOMAIN before, k \in DOMAIN after :
    before[j].id = after[k].id => Rank(after[k].status) >= Rank(before[j].status)

\* C25: no step takes a sprint, in the store or in the remote table, from
\* COMPLETED back to ACTIVE or PLANNED or from ACTIVE back to PLANNED
C25_StatusForwardOnly ==
  [][ForwardOnly(allSprints, allSprints') /\ ForwardOnly(dbSprints, dbSprints')]_vars

\* C26: at most one sprint of the selected project is ACTIVE in the store
C26_OneActiveSprint ==
  Cardinality({k \in DOMAIN allSprints :
                 /\ allSprints[k].projectId = activeProjectId
                 /\ allSprints[k].status = "ACTIVE"}) <= 1

\* a is b with some entries left out, the order kept
RECURSIVE IsSubSeq(_, _)
IsSubSeq(a, b) ==
  IF a = << >> THEN TRUE
  ELSE IF b = << >> THEN FALSE
  ELSE IF a[1] = b[1] THEN IsSubSeq(Tail(a), Tail(b))
  ELSE IsSubSeq(a, Tail(b))

\* the calls of addComment on the issue that have not returned yet
AddingComment(id) ==
  { s \in Slot : /\ ops[s].kind = "update" /\ ops[s].id = id
                 /\ ops[s].new.comments # ops[s].old.comments }

\* the comments of the issue whose addComment has returned without an error
SucceededComments(issue) ==
  SelectSeq(issue.comments,
            LAMBDA c : \A s \in AddingComment(issue.id) :
                         c # ops[s].new.comments[Len(ops[s].new.comments)])

\* C27: every comment whose addComment succeeded stays in the comment list of
\* its issue, unchanged and in the order added, whatever step the store takes
\* next (another addComment, the rollback of an updateIssue, a realtime event),
\* as long as the issue itself is in the collection.
C27_CommentsKept ==
  [][\A i \in DOMAIN allIssues : \A j \in DOMAIN allIssues' :
       allIssues[i].id = allIssues'[j].id =>
         IsSubSeq(SucceededComments(allIssues[i]), allIssues'[j].comments)]_vars

\* the subtasks of a list but the one with the given id
OtherSubtasks(subtasks, subtaskId) ==
  SelectSeq(subtasks, LAMBDA st : st.id # subtaskId)

\* C28: a subtask handler of the issue modal (add, toggle, delete) leaves
\* every subtask of the issue but the one it is about as the store held it
\* before the call.
C28_OtherSubtasksKept ==
  (done.op.kind = "subtask" /\ SomeId(done.issues, done.op.id)) =>
    OtherSubtasks(allIssues[FindIx(allIssues, done.op.id)].subtasks,
                  done.op.subtaskId)
      = OtherSubtasks(done.issues[FindIx(done.issues, done.op.id)].subtasks,
                      done.op.subtaskId)

\* a member handler whose remote update failed, run while the team's entry
\* was still the one the handler had written
MemberFailedAlone ==
  /\ done.op.kind \in {"addMember", "removeMember"}
  /\ done.op.stage = "fail"
  /\ SomeId(done.op.teams, done.op.teamId)
  /\ done.op.teams[FindIx(done.op.teams, done.op.teamId)] = done.op.updatedTeam

\* C29: when the remote update of addMemberToTeam or removeMemberFromTeam
\* fails and nothing else touched the team since the call, the member list
\* is the one before the call and an error notice is added; addMemberToTeam
\* for a user who is a member already changes no team and starts no remote
\* call.
C29_MemberRollback ==
  /\ MemberFailedAlone =>
       /\ allTeams[FindIx(allTeams, done.op.teamId)].members
            = done.op.team.members
       /\ toasts = Append(done.op.toasts,
                          [id |-> now,
                           message |-> IF done.op.kind = "addMember"
                                         THEN "Failed to add member"
                                         ELSE "Failed to remove member",
                           type |-> "error"])
  /\ (done.op.kind = "addMember" /\ done.op.stage = "return") =>
       /\ allTeams = done.op.teams
       /\ ops = done.op.ops
       /\ dbTeams = done.op.dbTeams
       /\ toasts = done.op.toasts

\* a failed addMemberToTeam whose revert took the added member out again
C29_Witness ==
  /\ MemberFailedAlone
  /\ done.op.kind = "addMember"
  /\ allTeams # done.op.teams

\* addMemberToTeam returned at once for a user who is a member
C29_WitnessMember ==
  /\ done.op.kind = "addMember" /\ done.op.stage = "return"
  /\ SomeId(allTeams, done.op.teamId)
  /\ Includes(allTeams[FindIx(allTeams, done.op.teamId)].members,
              done.op.userId)

\* C30: the lead of every team of the store is one of its members.
C30_LeadIsMember ==
  \A k \in DOMAIN allTeams : Includes(allTeams[k].members, allTeams[k].leadId)

C37_WitnessRefused ==
  /\ permResult.done
  /\ currentUser # NoUser /\ currentUser.role = "CTO"
  /\ permAsked = "CREATE_PROJECT"
  /\ ~permResult.value

\* seq without its k-th entry
WithoutIndex(seq, k) == [j \in 1..(Len(seq) - 1) |-> IF j < k THEN seq[j] ELSE seq[j + 1]]

\* C39: the timer of a notice, and its close button, remove that notice from
\* the toast list and no other.
C39_RemovesOnlyThatToast ==
  (done.op.kind \in {"expire", "dismiss"}) =>
    toasts = WithoutIndex(done.op.toasts, done.op.k)

\* C38: as long as addIssue generates ids that are new, no two entries of the
\* local issue collection have the same id.
C38_NoDuplicateIds ==
  \A j, k \in DOMAIN allIssues : allIssues[j].id = allIssues[k].id => j = k

\* the INSERT event of an issue the store holds already was handed over
C38_Witness ==
  /\ done.op.kind = "event" /\ done.op.ev.type = "INSERT"
  /\ done.op.ev.table = "issues"
  /\ SomeId(done.issues, done.op.ev.new.id)
  /\ done.op.ev.new.id[2] < 9000

\* C33: while nobody is signed in, after logout as before the first login, no
\* workspace and no project is selected and the workspace and project
\* collections are empty, also when a fetch that started before logout is
\* answered after it.
C33_LoggedOutStoreIsEmpty ==
  currentUser = NoUser =>
    /\ workspaces = << >> /\ allProjects = << >>
    /\ activeWorkspaceId = NoId /\ activeProjectId = NoId

\* C32: a login that fails, by an authentication error or because the remote
\* service is not configured, leaves the current user, the workspaces, the
\* projects and both selections as they were, shows an error notice and ends
\* with isLoading false.
C32_FailedLoginKeepsSession ==
  /\ (done.op.kind = "login" /\ done.op.stage \in {"call", "fail", "refused"})
       => SessionState = done.op.was
  /\ (done.op.kind = "login" /\ done.op.stage \in {"fail", "refused"})
       => /\ ~isLoading
          /\ Len(toasts) = Len(done.op.toasts) + 1
          /\ toasts[Len(toasts)].type = "error"

\* the sign-in of a configured client was answered with an error
C32_Witness == done.op.kind = "login" /\ done.op.stage = "fail"

\* login was called with the remote service not configured
C32_WitnessUnconfigured ==
  done.op.kind = "login" /\ done.op.stage = "refused" /\ ~auth.configured

\* C34: once the remote calls of a login attempt and of the session handler it
\* started have resolved, isLoading is false, also when init failed before the
\* session-change listener was registered.
C34_LoadingEndsWithTheCalls ==
  (auth.init = "done" /\ \A s \in Slot : ops[s] = Idle) => ~isLoading

\* C35: a TOKEN_REFRESHED event for the user who is signed in and has a
\* workspace selected leaves the selected workspace and the selected project
\* as they were.
C35_RefreshKeepsSelection ==
  (/\ done.op.kind = "session" /\ done.op.event = "TOKEN_REFRESHED"
   /\ done.op.stage = "ok"
   /\ done.op.was.currentUser # NoUser
   /\ done.op.was.activeWorkspaceId # NoId)
    => /\ activeWorkspaceId = done.op.was.activeWorkspaceId
       /\ activeProjectId = done.op.was.activeProjectId

\* C36: createProject by a user whose role lacks CREATE_PROJECT, called while
\* the store holds a project, never gets to api.createProject, none of its
\* continuations changes the projects, the workspaces or a selection, and it
\* returns with an error notice.
C36_RefusedCreationChangesNothing ==
  (done.op.kind = "createProject" /\ Refused(done.op.closed)) =>
    /\ done.op.stage \in {"refused", "account", "wsSent", "wsError"}
    /\ SessionState = done.op.was
    /\ done.op.stage # "wsSent" =>
         /\ Len(toasts) = Len(done.op.toasts) + 1
         /\ toasts[Len(toasts)].type = "error"

\* C31: the owner of every workspace of the store is one of its members, and
\* no member is listed twice.
C31_OwnerIsMemberOnce ==
  \A k \in DOMAIN workspaces :
    LET w == workspaces[k]
    IN  /\ \E j \in DOMAIN w.members : w.members[j] = w.ownerId
        /\ \A i, j \in DOMAIN w.members : w.members[i] = w.members[j] => i = j

\* inviteUser added a user to a workspace that createProject or
\* createWorkspace made
C31_Witness ==
  /\ done.op.kind = "invite" /\ done.op.stage = "ok"
  /\ done.op.id \in {WorkspaceIdAt[k] : k \in DOMAIN WorkspaceIdAt}
  /\ \E k \in DOMAIN workspaces :
       workspaces[k].id = done.op.id /\ Len(workspaces[k].members) = 2

\* inviteUser added a second user to a workspace
C31_WitnessTwice ==
  /\ done.op.kind = "invite" /\ done.op.stage = "ok"
  /\ \E k \in DOMAIN workspaces : Len(workspaces[k].members) = 3

====
